---- MODULE Spec2Model ----
(***************************************************************************)
(* Model of the analysis engine of SectorFusion: the sector-swap detector  *)
(* (sectorswap.py) and the coverage profiler (coverage_calculator.py).     *)
(*                                                                         *)
(* Data abstraction.  The sectors of one site share the mast, so an MR     *)
(* sample is given in polar form relative to its site: the bearing brg     *)
(* (whole degrees) and the distance dist from the mast.  The MR table is   *)
(* kept as a bag: a block [site, cell, brg, dist, rsrp, numeric, n] stands  *)
(* for n MR rows with these values (numeric: float() accepts the fields).  *)
(* The EP key (site, cell) is unique and decides the carrier (the MR join  *)
(* key is site + "_" + cell).                                              *)
(***************************************************************************)
EXTENDS Integers, Sequences, FiniteSets, TLC

VARIABLES
    ep_data,          \* EP table: sequence of rows [site, cell, carrier, az, lat_numeric]
    mr_data,          \* MR table: set of blocks [site, cell, brg, dist, rsrp, numeric, n]
    param_settings,   \* [sector_split: Seq, massive_mimo: Seq] (Parameter_Settings.json)
    pc,               \* position of the running analysis
    futures,          \* sites whose worker future has not been collected yet
    results,          \* rows collected so far, in completion order
    processed_cells,  \* progress counter of the running analysis
    progress,         \* percentages handed to progress_callback, in order
    result_df,        \* the table the analysis returned
    cell_combinations, \* analyze_coverage: the EP sectors still to be processed
    args,             \* the scalar arguments of the running call (a record)
    coords,           \* azimuth estimator: the points of the running call
    is_analyzing,     \* analysis window: the flag self.is_analyzing
    frames,           \* analysis window: the active analyze_data calls, innermost last
    site_keys         \* TrialManager.site_keys: the registered EP keys

vars == <<ep_data, mr_data, param_settings, pc, futures, results,
          processed_cells, progress, result_df, cell_combinations, args, coords,
          is_analyzing, frames, site_keys>>

----------------------------------------------------------------------------
(* Program constants *)

FIXED_BEAMWIDTH == 65

MinSamples == 50

MIMO == "Massive MIMO"

SPLIT == "Sector Split"

PLAIN == ""

SwapFound == "Sector Swap Found Between"

NoSwap == "No Sector Swap Found"

NoSwapTyped == "No Sector Swap Found - "

NoMR == "NO MR Data found for the cell"

LessMR == "Less Number of MR Points"

----------------------------------------------------------------------------
(* Bounds of the model *)

NumIds == 5

NumSites == 2

CellIds == 1..NumIds

SiteIds == 1..NumSites

----------------------------------------------------------------------------
(* Generic helpers *)

RECURSIVE SumSeq(_)
SumSeq(s) == IF s = <<>> THEN 0 ELSE Head(s) + SumSeq(Tail(s))

RECURSIVE SetToSeq(_)
\* the elements of a set of integers in ascending order
SetToSeq(S) ==
    IF S = {} THEN <<>>
    ELSE LET m == CHOOSE x \in S : \A y \in S : x <= y
         IN <<m>> \o SetToSeq(S \ {m})

Reverse(s) == [i \in 1..Len(s) |-> s[Len(s) + 1 - i]]

RECURSIVE SumBlocks(_)
\* number of MR rows in a set of blocks
SumBlocks(B) ==
    IF B = {} THEN 0
    ELSE LET b == CHOOSE x \in B : TRUE IN b.n + SumBlocks(B \ {b})

MaxOf(S) == IF S = {} THEN 0 ELSE CHOOSE x \in S : \A y \in S : y <= x

RECURSIVE InsertSorted(_, _)
InsertSorted(x, s) ==
    IF s = <<>> THEN <<x>>
    ELSE IF x <= Head(s) THEN <<x>> \o s
    ELSE <<Head(s)>> \o InsertSorted(x, Tail(s))

RECURSIVE sorted(_)
\* sorted(list) of Python, on a sequence of integers
sorted(s) == IF s = <<>> THEN <<>> ELSE InsertSorted(Head(s), sorted(Tail(s)))

Range(s) == {s[i] : i \in 1..Len(s)}

RECURSIVE DictOn(_, _)
\* the function f as an explicit table on the keys D
DictOn(f, D) ==
    IF D = {} THEN <<>>
    ELSE LET k == CHOOSE x \in D : TRUE
         IN (k :> f[k]) @@ DictOn(f, D \ {k})

Dict(f) == DictOn(f, DOMAIN f)

RECURSIVE ListOn(_, _)
\* the first n values of the function f as an explicit list
ListOn(f, n) == IF n = 0 THEN <<>> ELSE Append(ListOn(f, n - 1), f[n])

List(f) == ListOn(f, Len(f))

----------------------------------------------------------------------------
(* Group configuration lookups *)

\* variant of ExistsAtSite that skips the presence test on the site's EP rows
AlwaysAtSite(epE, id) == TRUE

ExistsAtSite(epE, id) == \E i \in 1..Len(epE) : epE[i].cell = id

RECURSIVE SplitScan(_, _, _, _)
SplitScan(cell_id, carrier, epE, i) ==
    LET splits == param_settings.sector_split IN
    IF i > Len(splits) THEN [found |-> FALSE, partner |-> 0]
    ELSE LET split == splits[i] IN
         IF split.Layer = carrier /\ cell_id = split.Parrent
            /\ ExistsAtSite(epE, split.Child)
         THEN [found |-> TRUE, partner |-> split.Child]
         ELSE IF split.Layer = carrier /\ cell_id # split.Parrent
                 /\ cell_id = split.Child /\ ExistsAtSite(epE, split.Parrent)
         THEN [found |-> TRUE, partner |-> split.Parrent]
         ELSE SplitScan(cell_id, carrier, epE, i + 1)

check_sector_split_pair(cell_id, carrier, epE) == SplitScan(cell_id, carrier, epE, 1)

RECURSIVE MimoScan(_, _, _, _)
MimoScan(cell_id, carrier, epE, i) ==
    LET mimos == param_settings.massive_mimo IN
    IF i > Len(mimos) THEN [found |-> FALSE, group |-> <<>>]
    ELSE LET mimo == mimos[i] IN
         IF mimo.Layer = carrier /\ cell_id \in Range(mimo.Beams)
            /\ \A b \in Range(mimo.Beams) : ExistsAtSite(epE, b)
         THEN [found |-> TRUE, group |-> mimo.Beams]
         ELSE MimoScan(cell_id, carrier, epE, i + 1)

check_massive_mimo_group(cell_id, carrier, epE) == MimoScan(cell_id, carrier, epE, 1)

----------------------------------------------------------------------------
(* process_enodeb, part 1: resolution of the cell types *)

\* the keys of cell_configurations, in insertion order: f"{cell_id}_{carrier}"
CellKeys(epE) == List([i \in 1..Len(epE) |-> <<epE[i].cell, epE[i].carrier>>])

cell_configurations(epE) ==
    Dict([k \in Range(CellKeys(epE)) |->
        LET m == check_massive_mimo_group(k[1], k[2], epE)
            s == check_sector_split_pair(k[1], k[2], epE)
        IN [is_mimo |-> m.found, mimo_group |-> m.group,
            is_split |-> s.found, split_partner |-> s.partner]])

mimo_group_key(group, carrier) == <<sorted(group), carrier>>

valid_mimo_groups(epE, cfg) ==
    LET keys == {mimo_group_key(cfg[k].mimo_group, k[2]) :
                    k \in {c \in DOMAIN cfg : cfg[c].is_mimo}}
    IN Dict([g \in keys |-> \A i \in 1..Len(g[1]) : <<g[1][i], g[2]>> \in DOMAIN cfg])

ValidGet(valid, g) == g \in DOMAIN valid /\ valid[g]

RECURSIVE OverlapScan(_, _, _, _)
OverlapScan(keys, cfg, i, acc) ==
    IF i > Len(keys) THEN acc
    ELSE LET k == keys[i]
             partner == cfg[k].split_partner
             hits == {j \in 1..Len(keys) :
                         /\ cfg[keys[j]].is_mimo
                         /\ k[1] \in Range(cfg[keys[j]].mimo_group)
                         /\ partner \in Range(cfg[keys[j]].mimo_group)}
         IN IF cfg[k].is_split /\ hits # {}
            THEN LET j == CHOOSE h \in hits : \A h2 \in hits : h <= h2
                     g == mimo_group_key(cfg[keys[j]].mimo_group, k[2])
                 IN OverlapScan(keys, cfg, i + 1,
                        (<<partner, k[2]>> :> g) @@ (k :> g) @@ acc)
            ELSE OverlapScan(keys, cfg, i + 1, acc)

split_mimo_overlap(epE, cfg) == OverlapScan(CellKeys(epE), cfg, 1, <<>>)

FinalTypeStep(k, cfg, valid, overlap, ft) ==
    IF k \in DOMAIN overlap
    THEN [ft EXCEPT ![k] = IF ValidGet(valid, overlap[k]) THEN MIMO ELSE SPLIT]
    ELSE IF cfg[k].is_mimo
    THEN IF ValidGet(valid, mimo_group_key(cfg[k].mimo_group, k[2]))
         THEN [ft EXCEPT ![k] = MIMO]
         ELSE ft
    ELSE IF cfg[k].is_split /\ ft[k] = PLAIN
    THEN LET partner_key == <<cfg[k].split_partner, k[2]>> IN
         IF partner_key \in DOMAIN cfg /\ ft[partner_key] # MIMO
         THEN [ft EXCEPT ![k] = SPLIT, ![partner_key] = SPLIT]
         ELSE ft
    ELSE ft

RECURSIVE FinalTypeScan(_, _, _, _, _, _)
FinalTypeScan(keys, cfg, valid, overlap, i, ft) ==
    IF i > Len(keys) THEN ft
    ELSE FinalTypeScan(keys, cfg, valid, overlap, i + 1,
                       FinalTypeStep(keys[i], cfg, valid, overlap, ft))

\* final_type of every cell key of the site ("" when the code leaves it unset)
final_type(epE) ==
    LET cfg == cell_configurations(epE)
        valid == valid_mimo_groups(epE, cfg)
        overlap == split_mimo_overlap(epE, cfg)
    IN FinalTypeScan(CellKeys(epE), cfg, valid, overlap, 1,
                     Dict([k \in DOMAIN cfg |-> PLAIN]))

----------------------------------------------------------------------------
(* process_enodeb, part 2: histogram pass and pair pass of one carrier *)

Abs(x) == IF x < 0 THEN -x ELSE x

\* az_diff = abs((mr_az - other_az + 180) % 360 - 180)
az_diff(mr_az, other_az) == Abs(((mr_az - other_az + 180) % 360) - 180)

\* az_diff <= self.FIXED_BEAMWIDTH / 2
InCone(mr_az, other_az) == 2 * az_diff(mr_az, other_az) <= FIXED_BEAMWIDTH

\* mr_enodeb_data[mr_enodeb_data['MR_key'] == ep_cell_key]
mr_cell_data(mrE, cell_id) == {b \in mrE : b.cell = cell_id}

\* sector_info_by_carrier[carrier]: the EP rows of the carrier, in EP order
sector_info(epE, carrier) == SelectSeq(epE, LAMBDA r : r.carrier = carrier)

\* variant of direction_counts that counts the other cells only: the entry
\* of the cell itself stays at its initial 0
direction_counts_others(info, mrE, cell_id) ==
    Dict([cid \in {info[i].cell : i \in 1..Len(info)} |->
        LET az == (CHOOSE r \in Range(info) : r.cell = cid).az
        IN IF cid = cell_id THEN 0
           ELSE SumBlocks({b \in mr_cell_data(mrE, cell_id) : InCone(b.brg, az)})])

\* direction_counts of one cell: an entry for every cell id of sector_info
direction_counts(info, mrE, cell_id) ==
    Dict([cid \in {info[i].cell : i \in 1..Len(info)} |->
        LET az == (CHOOSE r \in Range(info) : r.cell = cid).az
        IN SumBlocks({b \in mr_cell_data(mrE, cell_id) : InCone(b.brg, az)})])

\* variant of max_cell that takes the last cell of sector_info with the highest count
max_cell_last(info, dc) ==
    LET top == MaxOf({dc[c] : c \in DOMAIN dc})
        i == CHOOSE j \in 1..Len(info) :
                /\ dc[info[j].cell] = top
                /\ \A h \in (j + 1)..Len(info) : dc[info[h].cell] # top
    IN info[i].cell

\* max(direction_counts, key=...): the first cell of sector_info with the highest count
max_cell(info, dc) ==
    LET top == MaxOf({dc[c] : c \in DOMAIN dc})
        i == CHOOSE j \in 1..Len(info) :
                /\ dc[info[j].cell] = top
                /\ \A h \in 1..(j - 1) : dc[info[h].cell] # top
    IN info[i].cell

\* sorted_counts[1] if len(sorted_counts) > 1 else 0
second_max_count(info, dc) ==
    IF Len(info) <= 1 THEN 0
    ELSE LET m == max_cell(info, dc)
         IN MaxOf({dc[c] : c \in DOMAIN dc \ {m}})

\* the entry of swap_candidates for one active cell
Candidate(info, mrE, ft, row) ==
    LET dc == direction_counts(info, mrE, row.cell)
        key == <<row.cell, row.carrier>>
    IN [cell |-> row.cell,
        target |-> max_cell(info, dc),
        max_count |-> dc[max_cell(info, dc)],
        total_mr |-> SumSeq([i \in 1..Len(info) |-> dc[info[i].cell]]),
        second_max_count |-> second_max_count(info, dc),
        cell_type |-> ft[key],
        is_split |-> ft[key] = SPLIT,
        direction_counts |-> dc]

\* first pass: the cells that enter swap_candidates / cell_stats, in EP order
ActiveRows(info, mrE, ft) ==
    SelectSeq(info, LAMBDA r :
        /\ ft[<<r.cell, r.carrier>>] # MIMO
        /\ SumBlocks(mr_cell_data(mrE, r.cell)) >= MinSamples)

swap_candidates(info, mrE, ft) ==
    LET act == ActiveRows(info, mrE, ft)
    IN List([i \in 1..Len(act) |-> Candidate(info, mrE, ft, act[i])])

CandOf(cands, cell_id) == cands[CHOOSE i \in 1..Len(cands) : cands[i].cell = cell_id]

IsCand(cands, cell_id) == \E i \in 1..Len(cands) : cands[i].cell = cell_id

\* variant of adaptive_swap whose higher ratio has to pass 0.7
adaptive_swap_above_strict(c, t) ==
    LET cell_dir_count == IF t.cell \in DOMAIN c.direction_counts
                          THEN c.direction_counts[t.cell] ELSE 0
        target_dir_count == IF c.cell \in DOMAIN t.direction_counts
                            THEN t.direction_counts[c.cell] ELSE 0
        c_hi == 10 * cell_dir_count > 7 * c.total_mr
        c_lo == 10 * cell_dir_count > 3 * c.total_mr
        t_hi == 10 * target_dir_count > 7 * t.total_mr
        t_lo == 10 * target_dir_count > 3 * t.total_mr
    IN (c_hi /\ t_lo) \/ (c_lo /\ t_hi)

\* adaptive_swap of the pair (candidate, its target)
adaptive_swap(c, t) ==
    LET cell_dir_count == IF t.cell \in DOMAIN c.direction_counts
                          THEN c.direction_counts[t.cell] ELSE 0
        target_dir_count == IF c.cell \in DOMAIN t.direction_counts
                            THEN t.direction_counts[c.cell] ELSE 0
        \* ratio > 0.6 and ratio > 0.3, on count / total_mr with total_mr > 0
        c_hi == 10 * cell_dir_count > 6 * c.total_mr
        c_lo == 10 * cell_dir_count > 3 * c.total_mr
        t_hi == 10 * target_dir_count > 6 * t.total_mr
        t_lo == 10 * target_dir_count > 3 * t.total_mr
    IN (c_hi /\ t_lo) \/ (c_lo /\ t_hi)

strict_one(c) ==
    /\ 10 * c.max_count >= 7 * c.total_mr
    /\ 10 * (c.max_count - c.second_max_count) >= 2 * c.total_mr

strict_swap(c, t) == strict_one(c) /\ strict_one(t)

Row(enodeb, cell_id, text, a, b, cell_type) ==
    [enodeb |-> enodeb, cell |-> cell_id,
     result |-> [text |-> text, a |-> a, b |-> b,
                 tag |-> IF text = NoSwapTyped THEN cell_type ELSE ""],
     cell_type |-> cell_type]

SwapRow(enodeb, c, t) == Row(enodeb, c.cell, SwapFound, c.cell, t.cell, c.cell_type)

\* variant of PairCondition that knows the strict condition only
PairConditionStrictOnly(c, t) ==
    LET mutual == (t.target = c.cell) IN
    IF c.is_split
    THEN mutual /\ t.is_split
    ELSE mutual /\ strict_swap(c, t)

\* variant of PairCondition that does not ask the target to point back
PairConditionOneSided(c, t) ==
    IF c.is_split
    THEN t.is_split
    ELSE adaptive_swap(c, t) \/ strict_swap(c, t)

\* does the pair pass confirm a swap for this candidate and its target
PairCondition(c, t) ==
    LET mutual == (t.target = c.cell) IN
    IF c.is_split
    THEN mutual /\ t.is_split
    ELSE mutual /\ (adaptive_swap(c, t) \/ strict_swap(c, t))

\* one iteration of the second pass; st = [processed_pairs, added_cells,
\* swap_found_cells, rows]
PairStep(enodeb, cands, c, st) ==
    IF c.total_mr = 0 THEN st
    ELSE IF ~IsCand(cands, c.target) THEN st
    ELSE LET t == CandOf(cands, c.target)
             pair == {c.cell, t.cell}
         IN IF t.total_mr = 0 THEN st
            ELSE IF ~(PairCondition(c, t) /\ pair \notin st.processed_pairs) THEN st
            ELSE IF c.cell = t.cell THEN st
            ELSE LET r1 == IF <<c.cell, t.cell>> \notin st.added_cells
                           THEN <<SwapRow(enodeb, c, t)>> ELSE <<>>
                     a1 == st.added_cells \cup {<<c.cell, t.cell>>}
                     r2 == IF <<t.cell, c.cell>> \notin a1
                           THEN <<SwapRow(enodeb, t, c)>> ELSE <<>>
                 IN [processed_pairs |-> st.processed_pairs \cup {pair},
                     added_cells |-> a1 \cup {<<t.cell, c.cell>>},
                     swap_found_cells |-> st.swap_found_cells
                         \cup (IF r1 # <<>> THEN {c.cell} ELSE {})
                         \cup (IF r2 # <<>> THEN {t.cell} ELSE {}),
                     rows |-> st.rows \o r1 \o r2]

RECURSIVE PairScan(_, _, _, _)
PairScan(enodeb, cands, i, st) ==
    IF i > Len(cands) THEN st
    ELSE PairScan(enodeb, cands, i + 1, PairStep(enodeb, cands, cands[i], st))

\* the rows one evaluation of a carrier appends: swap rows, then the
\* 'No Sector Swap Found' rows of cell_stats
CarrierPass(enodeb, epE, mrE, ft, carrier) ==
    LET info == sector_info(epE, carrier)
        cands == swap_candidates(info, mrE, ft)
        st == PairScan(enodeb, cands, 1,
                  [processed_pairs |-> {}, added_cells |-> {},
                   swap_found_cells |-> {}, rows |-> <<>>])
        rest == SelectSeq(cands, LAMBDA c : c.cell \notin st.swap_found_cells)
    IN st.rows \o List([i \in 1..Len(rest) |->
                      Row(enodeb, rest[i].cell, NoSwap, 0, 0, rest[i].cell_type)])

----------------------------------------------------------------------------
(* process_enodeb, part 3: the loop over the EP rows of the site *)

\* variant of RowsOfCell whose sample test is len(mr_cell_data) <= 50
RowsOfCellInclusive(enodeb, mrE, ft, pass, row) ==
    LET cell_type == ft[<<row.cell, row.carrier>>]
        samples == SumBlocks(mr_cell_data(mrE, row.cell))
    IN IF cell_type = MIMO
       THEN <<Row(enodeb, row.cell, NoSwapTyped, 0, 0, cell_type)>>
       ELSE IF samples = 0
       THEN <<Row(enodeb, row.cell, NoMR, 0, 0, cell_type)>>
       ELSE IF samples <= MinSamples
       THEN <<Row(enodeb, row.cell, LessMR, 0, 0, cell_type)>>
       ELSE pass[row.carrier]

\* the rows the loop appends for one EP row; pass[carrier] is the outcome of
\* the two passes over that carrier, which is the same for every row of it
RowsOfCell(enodeb, mrE, ft, pass, row) ==
    LET cell_type == ft[<<row.cell, row.carrier>>]
        samples == SumBlocks(mr_cell_data(mrE, row.cell))
    IN IF cell_type = MIMO
       THEN <<Row(enodeb, row.cell, NoSwapTyped, 0, 0, cell_type)>>
       ELSE IF samples = 0
       THEN <<Row(enodeb, row.cell, NoMR, 0, 0, cell_type)>>
       ELSE IF samples < MinSamples
       THEN <<Row(enodeb, row.cell, LessMR, 0, 0, cell_type)>>
       ELSE pass[row.carrier]

RECURSIVE RowScan(_, _, _, _, _, _)
RowScan(enodeb, epE, mrE, ft, pass, i) ==
    IF i > Len(epE) THEN <<>>
    ELSE RowsOfCell(enodeb, mrE, ft, pass, epE[i])
         \o RowScan(enodeb, epE, mrE, ft, pass, i + 1)

\* variant of DropDuplicates that keeps every row
KeepAll(rows, keys, seen) == rows

RECURSIVE DropDuplicates(_, _, _)
\* DataFrame.drop_duplicates(subset=..., keep='first'); keys[i] is the subset of rows[i]
DropDuplicates(rows, keys, seen) ==
    IF rows = <<>> THEN <<>>
    ELSE IF Head(keys) \in seen
    THEN DropDuplicates(Tail(rows), Tail(keys), seen)
    ELSE <<Head(rows)>>
         \o DropDuplicates(Tail(rows), Tail(keys), seen \cup {Head(keys)})

SiteCellResult(r) == <<r.enodeb, r.cell, r.result>>

SiteCell(r) == <<r.enodeb, r.cell>>

process_enodeb(enodeb, epE, mrE) ==
    LET ft == final_type(epE)
        pass == Dict([l \in {epE[i].carrier : i \in 1..Len(epE)} |->
                    CarrierPass(enodeb, epE, mrE, ft, l)])
        rows == RowScan(enodeb, epE, mrE, ft, pass, 1)
    IN DropDuplicates(rows, [i \in 1..Len(rows) |-> SiteCellResult(rows[i])], {})

----------------------------------------------------------------------------
(* sector_swap_analysis *)

ep_enodeb_data(enodeb) == SelectSeq(ep_data, LAMBDA r : r.site = enodeb)

mr_enodeb_data(enodeb) == {b \in mr_data : b.site = enodeb}

\* "Sector Swap Found" in result: so is every 'No Sector Swap Found...' text
split_priority(result) ==
    IF result.text \in {SwapFound, NoSwap, NoSwapTyped} THEN 2 ELSE 0

RECURSIVE InsertBeforeEqual(_, _)
\* variant: insert the pair p in front of the pairs with an equal key
InsertBeforeEqual(p, s) ==
    IF s = <<>> THEN <<p>>
    ELSE IF p[1] <= Head(s)[1] THEN <<p>> \o s
    ELSE <<Head(s)>> \o InsertBeforeEqual(p, Tail(s))

RECURSIVE InsertByKey(_, _)
\* insert the pair p = <<key, row>> behind every pair whose key is not larger
InsertByKey(p, s) ==
    IF s = <<>> THEN <<p>>
    ELSE IF p[1] < Head(s)[1] THEN <<p>> \o s
    ELSE <<Head(s)>> \o InsertByKey(p, Tail(s))

RECURSIVE SortPairs(_)
SortPairs(s) ==
    IF s = <<>> THEN <<>>
    ELSE InsertByKey(s[Len(s)], SortPairs(SubSeq(s, 1, Len(s) - 1)))

\* a stable sort: sort_values on several columns (a lexsort) and list.sort;
\* rows with equal keys keep their order; keys[i] is the sort key of rows[i]
sort_values(rows, keys) ==
    LET srt == SortPairs(List([i \in 1..Len(rows) |-> <<keys[i], rows[i]>>]))
    IN List([i \in 1..Len(rows) |-> srt[i][2]])

Swap(t, i, j) == [t EXCEPT ![i] = t[j], ![j] = t[i]]

\* the median of t[pl], t[pm], t[pr] is moved to pm
MedianOfThree(t, pl, pm, pr) ==
    LET t1 == IF t[pm][1] < t[pl][1] THEN Swap(t, pm, pl) ELSE t
        t2 == IF t1[pr][1] < t1[pm][1] THEN Swap(t1, pr, pm) ELSE t1
    IN IF t2[pm][1] < t2[pl][1] THEN Swap(t2, pm, pl) ELSE t2

RECURSIVE ScanUp(_, _, _)
ScanUp(t, pi, vp) == IF t[pi][1] < vp THEN ScanUp(t, pi + 1, vp) ELSE pi

RECURSIVE ScanDown(_, _, _)
ScanDown(t, pj, vp) == IF vp < t[pj][1] THEN ScanDown(t, pj - 1, vp) ELSE pj

RECURSIVE PartitionLoop(_, _, _, _)
\* the partition around the pivot key vp: <<the pairs, the place of the split>>
PartitionLoop(t, pi, pj, vp) ==
    LET i == ScanUp(t, pi + 1, vp)
        j == ScanDown(t, pj - 1, vp)
    IN IF i >= j THEN <<t, i>> ELSE PartitionLoop(Swap(t, i, j), i, j, vp)

RECURSIVE aquicksort(_, _, _)
\* kind='quicksort', the default of sort_values on one column: partitions
\* around the median of three, insertion sort on a run of at most 17 pairs
\* (the fall-back to heapsort needs a deeper recursion than the tables here
\* give).  Sorts the pairs t[pl..pr] by their keys.
aquicksort(t, pl, pr) ==
    IF pr - pl > 16
    THEN LET pm == pl + (pr - pl) \div 2
             m == MedianOfThree(t, pl, pm, pr)
             part == PartitionLoop(Swap(m, pm, pr - 1), pl, pr - 1, m[pm][1])
             pi == part[2]
             p == Swap(part[1], pi, pr - 1)
         IN aquicksort(aquicksort(p, pl, pi - 1), pi + 1, pr)
    ELSE SubSeq(t, 1, pl - 1) \o SortPairs(SubSeq(t, pl, pr))
         \o SubSeq(t, pr + 1, Len(t))

\* sort_values(by=column, ascending=...): for a descending sort the rows
\* are reversed before the sort and the sorted rows are reversed again
sort_values_by(rows, keys, ascending) ==
    LET pairs == List([i \in 1..Len(rows) |-> <<keys[i], rows[i]>>])
        srt == IF ascending THEN aquicksort(pairs, 1, Len(pairs))
               ELSE Reverse(aquicksort(List(Reverse(pairs)), 1, Len(pairs)))
    IN List([i \in 1..Len(rows) |-> srt[i][2]])

\* the tail of sector_swap_analysis: sort by site, sort by priority
\* (descending), drop the duplicates of (site, cell)
FinalTable(rows) ==
    LET by_site == sort_values_by(rows, [i \in 1..Len(rows) |-> rows[i].enodeb], TRUE)
        by_prio == sort_values_by(by_site,
                       [i \in 1..Len(rows) |-> split_priority(by_site[i].result)],
                       FALSE)
    IN DropDuplicates(by_prio, [i \in 1..Len(rows) |-> SiteCell(by_prio[i])], {})

RECURSIVE Unique(_, _)
\* Series.unique(): the distinct values in order of first appearance
Unique(s, seen) ==
    IF s = <<>> THEN <<>>
    ELSE IF Head(s) \in seen THEN Unique(Tail(s), seen)
    ELSE <<Head(s)>> \o Unique(Tail(s), seen \cup {Head(s)})

EnodebList == Unique([i \in 1..Len(ep_data) |-> ep_data[i].site], {})

\* "if progress_callback: progress_callback(value)": the percentages handed to
\* the callback are recorded in progress; without a callback nothing is
report(value) == IF args.progress_callback THEN Append(progress, value) ELSE progress

\* the share of the cells still to come, in percent
percent_left(done, total_cells) == ((total_cells - done) * 100) \div total_cells

\* int((processed_cells / total_cells) * 100)
percent_done(done, total_cells) == (done * 100) \div total_cells

\* the submit loop: one future per site
Submit ==
    /\ pc = "idle"
    /\ pc' = "collect"
    /\ futures' = Range(EnodebList)
    /\ results' = <<>>
    /\ processed_cells' = 0
    /\ progress' = <<>>
    /\ UNCHANGED <<ep_data, mr_data, param_settings, result_df, cell_combinations, args, site_keys, is_analyzing, frames, coords>>

\* one round of the as_completed loop: the future of site enodeb completes
Collect(enodeb) ==
    /\ pc = "collect"
    /\ enodeb \in futures
    /\ LET rows == process_enodeb(enodeb, ep_enodeb_data(enodeb), mr_enodeb_data(enodeb))
           done == processed_cells + Len(rows)
       IN /\ results' = results \o rows
          /\ processed_cells' = done
          /\ progress' = report(percent_done(done, Len(ep_data)))
    /\ futures' = futures \ {enodeb}
    /\ UNCHANGED <<ep_data, mr_data, param_settings, pc, result_df,
                   cell_combinations, args, site_keys, is_analyzing, frames, coords>>

\* after the last future: build, sort and de-duplicate the table
Finish ==
    /\ pc = "collect"
    /\ futures = {}
    /\ result_df' = FinalTable(results)
    /\ pc' = "done"
    /\ UNCHANGED <<ep_data, mr_data, param_settings, futures, results,
                   processed_cells, progress, cell_combinations, args, site_keys, is_analyzing, frames, coords>>

\* sector_swap_analysis and analyze_coverage take no scalar argument; the
\* windows call them with a progress callback
NoArgs == [call |-> "tables", progress_callback |-> TRUE]

----------------------------------------------------------------------------
(* Inputs of the swap analysis: bounded families of EP, MR and configuration *)

L1 == "L1"

L2 == "L2"

\* planned azimuth of the cell ids used as input: four quadrant sectors, the
\* further ids 30 degrees off a quadrant (their cones overlap the quadrant's)
AzOf(c) == IF c <= 4 THEN (c - 1) * 90 ELSE (30 + (c - 5) * 90) % 360

EpRow(s, c, l) ==
    [site |-> s, cell |-> c, carrier |-> l, az |-> AzOf(c), lat_numeric |-> TRUE]

\* n MR rows of cell c at site s, all at bearing brg
Block(s, c, brg, n) ==
    [site |-> s, cell |-> c, brg |-> brg, dist |-> 100, rsrp |-> -80,
     numeric |-> TRUE, n |-> n]

\* MR rows of one cell: shape[1] rows at bearing brg, shape[2] rows on the
\* cell's own planned azimuth
CellSamples(s, c, brg, shape) ==
    IF brg = AzOf(c)
    THEN (IF shape[1] + shape[2] > 0
          THEN {Block(s, c, brg, shape[1] + shape[2])} ELSE {})
    ELSE (IF shape[1] > 0 THEN {Block(s, c, brg, shape[1])} ELSE {})
         \cup (IF shape[2] > 0 THEN {Block(s, c, AzOf(c), shape[2])} ELSE {})

Split(p, c) == [Parrent |-> p, Child |-> c, Layer |-> L1]

Mimo(b) == [Beams |-> b, Layer |-> L1]

SplitLists ==
    {<<>>, <<Split(1, 2)>>, <<Split(3, 4)>>, <<Split(1, 5)>>,
     <<Split(1, 2), Split(3, 4)>>, <<Split(1, 5), Split(3, 4)>>,
     <<Split(1, 2), Split(1, 5)>>}

MimoLists ==
    {<<>>, <<Mimo(<<1, 2, 3, 4>>)>>, <<Mimo(<<1, 2, 3, 5>>)>>,
     <<Mimo(<<1, 2, 3, 5>>), Mimo(<<1, 2, 3, 4>>)>>}

\* cell ids that may sit on the second carrier (0: every cell on L1)
OtherLayer == {0, 2, 5}

\* whom the samples of a cell point at in the "cross" background
CrossTarget(c) == IF c <= 4 THEN ((c + 1) % 4) + 1 ELSE 1

\* family 1: group resolution. One site, any set of cells in ascending or
\* descending EP order, at most one cell on the second carrier, every
\* configuration list; MR empty or 50 rows per cell on CrossTarget's azimuth
InitTypes ==
    \E ids \in SUBSET CellIds, desc \in BOOLEAN, oc \in OtherLayer,
       sl \in SplitLists, ml \in MimoLists, bg \in {"none", "cross"} :
        /\ ids # {}
        /\ desc => Cardinality(ids) >= 2
        /\ oc = 0 \/ oc \in ids
        /\ LET order == IF desc THEN Reverse(SetToSeq(ids)) ELSE SetToSeq(ids)
           IN ep_data = [i \in 1..Len(order) |->
                            EpRow(1, order[i], IF order[i] = oc THEN L2 ELSE L1)]
        /\ mr_data = IF bg = "none" THEN {}
                     ELSE UNION {CellSamples(1, c, AzOf(CrossTarget(c)), <<50, 0>>) :
                                    c \in ids}
        /\ param_settings = [sector_split |-> sl, massive_mimo |-> ml]

Bearings == {0, 90, 180, 135}

Shapes == {<<0, 0>>, <<49, 0>>, <<50, 0>>, <<30, 20>>, <<33, 17>>, <<25, 25>>}

\* family 2: the verdict. One site and carrier, cells 1 and 2 with any
\* histogram of Bearings x Shapes, an optional third cell, with or without
\* the split pair (1, 2)
InitVerdict ==
    \E desc \in BOOLEAN, withSplit \in BOOLEAN, b1 \in Bearings, b2 \in Bearings,
       s1 \in Shapes, s2 \in Shapes, c3 \in {"absent", "none", "own", "aim1"} :
        /\ (s1 = <<0, 0>> => b1 = 0) /\ (s2 = <<0, 0>> => b2 = 0)
        /\ LET ids == IF c3 = "absent" THEN {1, 2} ELSE {1, 2, 3}
               order == IF desc THEN Reverse(SetToSeq(ids)) ELSE SetToSeq(ids)
           IN ep_data = [i \in 1..Len(order) |-> EpRow(1, order[i], L1)]
        /\ mr_data = CellSamples(1, 1, b1, s1) \cup CellSamples(1, 2, b2, s2)
                     \cup (IF c3 = "own" THEN CellSamples(1, 3, AzOf(3), <<50, 0>>)
                           ELSE IF c3 = "aim1" THEN CellSamples(1, 3, AzOf(1), <<50, 0>>)
                           ELSE {})
        /\ param_settings = [sector_split |-> IF withSplit THEN <<Split(1, 2)>> ELSE <<>>,
                             massive_mimo |-> <<>>]

\* MR rows of the two cells of a site in the family of several sites
SiteSamples(s, kind) ==
    IF kind = "swapped"
    THEN CellSamples(s, 1, AzOf(2), <<50, 0>>) \cup CellSamples(s, 2, AzOf(1), <<50, 0>>)
    ELSE IF kind = "own"
    THEN CellSamples(s, 1, AzOf(1), <<50, 0>>) \cup CellSamples(s, 2, AzOf(2), <<50, 0>>)
    ELSE IF kind = "few"
    THEN CellSamples(s, 1, AzOf(2), <<49, 0>>)
    ELSE {}

\* family 3: several sites. Every site has the cells 1 and 2; the EP rows come
\* site by site or cell by cell, in ascending or descending site order
InitSites ==
    \E desc \in BOOLEAN, byCell \in BOOLEAN, withSplit \in BOOLEAN,
       kind \in [SiteIds -> {"none", "few", "own", "swapped"}] :
        /\ LET so == IF desc THEN Reverse(SetToSeq(SiteIds)) ELSE SetToSeq(SiteIds)
               n == Len(so)
           IN ep_data = IF byCell
                        THEN [i \in 1..(2 * n) |->
                                EpRow(so[((i - 1) % n) + 1], ((i - 1) \div n) + 1, L1)]
                        ELSE [i \in 1..(2 * n) |->
                                EpRow(so[((i - 1) \div 2) + 1], ((i - 1) % 2) + 1, L1)]
        /\ mr_data = UNION {SiteSamples(s, kind[s]) : s \in SiteIds}
        /\ param_settings = [sector_split |-> IF withSplit THEN <<Split(1, 2)>> ELSE <<>>,
                             massive_mimo |-> <<>>]

Init ==
    /\ InitTypes \/ InitVerdict \/ InitSites
    /\ pc = "idle"
    /\ futures = {}
    /\ is_analyzing = FALSE
    /\ frames = <<>>
    /\ site_keys = {}
    /\ results = <<>>
    /\ processed_cells = 0
    /\ progress = <<>>
    /\ result_df = <<>>
    /\ cell_combinations = <<>>
    /\ args = NoArgs
    /\ coords = <<>>

Next ==
    \/ Submit
    \/ \E enodeb \in SiteIds : Collect(enodeb)
    \/ Finish

Spec == Init /\ [][Next]_vars

\* the numbers of cells of a site in the family of large tables
LargeSizes == {8, 9, 10}

\* family 4: large tables. Two sites with 8 to 10 cells each, the EP rows
\* site by site in ascending or descending site order; the cells 1 and 2 of
\* a site have samples or none
InitLarge ==
    \E desc \in BOOLEAN, size \in [1..2 -> LargeSizes],
       kind \in [1..2 -> {"none", "own", "swapped"}] :
        /\ LET so == IF desc THEN <<2, 1>> ELSE <<1, 2>>
               first == size[so[1]]
           IN ep_data = [i \in 1..(size[1] + size[2]) |->
                            IF i <= first THEN EpRow(so[1], i, L1)
                            ELSE EpRow(so[2], i - first, L1)]
        /\ mr_data = UNION {SiteSamples(s, kind[s]) : s \in 1..2}
        /\ param_settings = [sector_split |-> <<>>, massive_mimo |-> <<>>]

InitLargeTables ==
    /\ InitLarge
    /\ pc = "idle"
    /\ futures = {}
    /\ is_analyzing = FALSE
    /\ frames = <<>>
    /\ site_keys = {}
    /\ results = <<>>
    /\ processed_cells = 0
    /\ progress = <<>>
    /\ result_df = <<>>
    /\ cell_combinations = <<>>
    /\ args = NoArgs
    /\ coords = <<>>

SpecLargeTables == InitLargeTables /\ [][Next]_vars

----------------------------------------------------------------------------
(* Coverage profiler: coverage_calculator.py *)

NoMRData == "No MR Data"

NoEPData == "No EP Data"

PoorCoverage == "Poor Coverage"

GoodCoverage == "Good Coverage"

\* self.distance_ranges, the last one open
distance_ranges == <<<<0, 300>>, <<300, 500>>, <<500, 700>>, <<700, 1000>>>>

\* f"{(count / total_mr_points) * 100:.1f}%", in tenths of a percent (the
\* sample totals of the inputs give no quotient half-way between two tenths)
Pct(count, total) ==
    IF total = 0 THEN 0 ELSE (2000 * count + total) \div (2 * total)

\* distance_weights, rsrp_weights (times 10)
weights == <<10, 8, 6, 4, 2>>

\* f"{overall_score:.1f}%" in tenths of a percent, from the formatted
\* percentages; a quotient half-way between two tenths is rounded up
overall_score(coverage_values, rsrp_values_pct) ==
    LET weighted == SumSeq([i \in 1..5 |->
                        (coverage_values[i] + rsrp_values_pct[i]) * weights[i]])
    IN (2 * weighted + 60) \div 120

\* a row of the coverage table; dist_counts and rsrp_counts are the counts
\* behind the percentages dist_pct and rsrp_pct
CoverageRow(site_id, cell_id, carrier, dist_counts, rsrp_counts, total, status) ==
    LET dist_pct == List([i \in 1..5 |-> Pct(dist_counts[i], total)])
        rsrp_pct == List([i \in 1..5 |-> Pct(rsrp_counts[i], total)])
    IN [site |-> site_id, cell |-> cell_id, carrier |-> carrier,
        dist_counts |-> dist_counts, rsrp_counts |-> rsrp_counts,
        dist_pct |-> dist_pct, rsrp_pct |-> rsrp_pct,
        score |-> overall_score(dist_pct, rsrp_pct),
        total |-> total, status |-> status]

base_result(site_id, cell_id, carrier, status) ==
    CoverageRow(site_id, cell_id, carrier, <<0, 0, 0, 0, 0>>, <<0, 0, 0, 0, 0>>, 0, status)

\* variant of range_mask with the bins closed at their upper edge
range_mask_upper_closed(distance, i) ==
    distance > distance_ranges[i][1] /\ distance <= distance_ranges[i][2]

\* (distances >= min_dist) & (distances < max_dist), for the i-th range
range_mask(distance, i) ==
    distance >= distance_ranges[i][1] /\ distance < distance_ranges[i][2]

\* variant of coverage_status that is Poor from 50% on
coverage_status_inclusive(poor_rsrp_count, total_mr_points) ==
    IF 2 * poor_rsrp_count >= total_mr_points THEN PoorCoverage ELSE GoodCoverage

\* "Poor Coverage" if poor_coverage_ratio > 50 else "Good Coverage", with
\* poor_coverage_ratio = (poor_rsrp_count / total_mr_points) * 100
coverage_status(poor_rsrp_count, total_mr_points) ==
    IF 2 * poor_rsrp_count > total_mr_points THEN PoorCoverage ELSE GoodCoverage

process_cell(site_id, cell_id, carrier, mr) ==
    LET cell_mr == {b \in mr : b.site = site_id /\ b.cell = cell_id}
        total_mr_points == SumBlocks(cell_mr)
        \* rows whose float() conversions succeed
        parsed == {b \in cell_mr : b.numeric}
        InDist(i) == {b \in parsed : range_mask(b.dist, i)}
        coverage == List([i \in 1..5 |->
                        IF i <= 4 THEN SumBlocks(InDist(i))
                        ELSE SumBlocks({b \in parsed : b.dist >= 1000})])
        below_105_count == SumBlocks({b \in parsed : b.rsrp < -105})
        rsrp_counts ==
            <<SumBlocks({b \in parsed : b.rsrp >= -70 /\ b.rsrp > -40}),
              SumBlocks({b \in parsed : b.rsrp >= -85 /\ b.rsrp < -70}),
              SumBlocks({b \in parsed : b.rsrp >= -95 /\ b.rsrp < -85}),
              SumBlocks({b \in parsed : b.rsrp >= -105 /\ b.rsrp < -95}),
              below_105_count>>
        status == coverage_status(below_105_count, total_mr_points)
    IN IF cell_mr = {} THEN base_result(site_id, cell_id, carrier, NoMRData)
       ELSE IF parsed = {} THEN base_result(site_id, cell_id, carrier, NoMRData)
       ELSE CoverageRow(site_id, cell_id, carrier, coverage, rsrp_counts,
                        total_mr_points, status)

\* ep_data[[site, cell, carrier]].drop_duplicates()
EpCombinations ==
    LET keys == [i \in 1..Len(ep_data) |->
                    <<ep_data[i].site, ep_data[i].cell, ep_data[i].carrier>>]
    IN DropDuplicates(keys, keys, {})

\* analyze_coverage up to its loop
analyze_coverage_begin ==
    /\ pc = "idle"
    /\ pc' = "coverage"
    /\ cell_combinations' = EpCombinations
    /\ results' = <<>>
    /\ processed_cells' = 0
    /\ progress' = <<>>
    /\ UNCHANGED <<ep_data, mr_data, param_settings, futures, result_df, args, site_keys, is_analyzing, frames, coords>>

\* one iteration of the loop, for the sector at the head of cell_combinations
analyze_coverage_cell ==
    /\ pc = "coverage"
    /\ cell_combinations # <<>>
    /\ LET row == Head(cell_combinations)
           ep_cell_data == SelectSeq(ep_data,
                               LAMBDA r : r.site = row[1] /\ r.cell = row[2])
       IN IF ep_cell_data # <<>> /\ ~ep_cell_data[1].lat_numeric
          THEN \* float() raises: the except clause of the loop continues
               UNCHANGED <<results, processed_cells, progress>>
          ELSE /\ results' = Append(results,
                       IF ep_cell_data # <<>>
                       THEN process_cell(row[1], row[2], row[3], mr_data)
                       ELSE base_result(row[1], row[2], row[3], NoEPData))
               /\ processed_cells' = processed_cells + 1
               /\ progress' = report(percent_done(processed_cells + 1,
                                                   Len(EpCombinations)))
    /\ cell_combinations' = Tail(cell_combinations)
    /\ UNCHANGED <<ep_data, mr_data, param_settings, pc, futures, result_df, args, site_keys, is_analyzing, frames, coords>>

\* after the loop: the table sorted by site and cell
analyze_coverage_end ==
    /\ pc = "coverage"
    /\ cell_combinations = <<>>
    /\ result_df' = sort_values(results,
                        [i \in 1..Len(results) |->
                            results[i].site * (NumIds + 1) + results[i].cell])
    /\ pc' = "done"
    /\ UNCHANGED <<ep_data, mr_data, param_settings, futures, results,
                   processed_cells, progress, cell_combinations, args, site_keys, is_analyzing, frames, coords>>

\* bound: the number of EP sectors of the coverage inputs
NumCovSectors == 3

CovSector(i) == [site |-> ((i + 1) \div 2), cell |-> ((i - 1) % 2) + 1]

CovKinds == {"none", "good", "poor", "half", "text"}

CovBlock(s, c, dist, rsrp, numeric, n) ==
    [site |-> s, cell |-> c, brg |-> 0, dist |-> dist, rsrp |-> rsrp,
     numeric |-> numeric, n |-> n]

CovSamples(s, c, kind) ==
    IF kind = "good" THEN {CovBlock(s, c, 100, -80, TRUE, 2)}
    ELSE IF kind = "poor" THEN {CovBlock(s, c, 800, -110, TRUE, 2),
                                CovBlock(s, c, 100, -80, TRUE, 1)}
    ELSE IF kind = "half" THEN {CovBlock(s, c, 800, -110, TRUE, 1),
                                CovBlock(s, c, 100, -80, TRUE, 1)}
    ELSE IF kind = "text" THEN {CovBlock(s, c, 0, 0, FALSE, 1)}
    ELSE {}

\* family 1 of the coverage inputs: any set of the sectors as EP rows, in
\* ascending or descending order, each with a numeric or a non-numeric EP
\* latitude and one kind of MR samples; a sector without EP row may have MR
\* samples all the same
InitCovSectors ==
    \E present \in SUBSET (1..NumCovSectors), desc \in BOOLEAN,
       lat \in [1..NumCovSectors -> BOOLEAN],
       kind \in [1..NumCovSectors -> CovKinds] :
        /\ present # {}
        /\ desc => Cardinality(present) >= 2
        /\ \A i \in (1..NumCovSectors) \ present : lat[i] /\ kind[i] \in {"none", "good"}
        /\ LET order == IF desc THEN Reverse(SetToSeq(present)) ELSE SetToSeq(present)
           IN ep_data = [i \in 1..Len(order) |->
                            [site |-> CovSector(order[i]).site,
                             cell |-> CovSector(order[i]).cell,
                             carrier |-> L1, az |-> 0,
                             lat_numeric |-> lat[order[i]]]]
        /\ mr_data = UNION {CovSamples(CovSector(i).site, CovSector(i).cell, kind[i]) :
                               i \in 1..NumCovSectors}
        /\ param_settings = [sector_split |-> <<>>, massive_mimo |-> <<>>]

\* (distance in m, RSRP in dBm) of the samples of family 2: the edges of
\* every distance bin and of every RSRP bin
Probes ==
    {<<0, -30>>, <<100, -60>>, <<299, -40>>, <<300, -70>>, <<499, -71>>,
     <<500, -85>>, <<699, -86>>, <<700, -95>>, <<999, -96>>, <<1000, -105>>,
     <<1500, -106>>, <<800, -110>>}

ProbeCounts == {1, 2, 50}

\* family 2 of the coverage inputs: one EP sector whose samples are two groups
\* of equal samples at two probes, with or without one malformed MR row
InitCovBins ==
    \E p1 \in Probes, p2 \in Probes, n1 \in ProbeCounts, n2 \in ProbeCounts,
       bad \in BOOLEAN :
        /\ ep_data = <<[site |-> 1, cell |-> 1, carrier |-> L1, az |-> 0,
                        lat_numeric |-> TRUE]>>
        /\ mr_data = {CovBlock(1, 1, p1[1], p1[2], TRUE, n1),
                      CovBlock(1, 1, p2[1], p2[2], TRUE, n2)}
                     \cup (IF bad THEN {CovBlock(1, 1, 0, 0, FALSE, 1)} ELSE {})
        /\ param_settings = [sector_split |-> <<>>, massive_mimo |-> <<>>]

InitCoverage ==
    /\ InitCovSectors \/ InitCovBins
    /\ pc = "idle"
    /\ futures = {}
    /\ is_analyzing = FALSE
    /\ frames = <<>>
    /\ site_keys = {}
    /\ results = <<>>
    /\ processed_cells = 0
    /\ progress = <<>>
    /\ result_df = <<>>
    /\ cell_combinations = <<>>
    /\ args = NoArgs
    /\ coords = <<>>

NextCoverage ==
    \/ analyze_coverage_begin
    \/ analyze_coverage_cell
    \/ analyze_coverage_end

SpecCoverage == InitCoverage /\ [][NextCoverage]_vars

----------------------------------------------------------------------------
(* Vocabulary of the claims about the swap table *)

Done == pc = "done"

TableRows == Range(result_df)

RowsFor(enodeb, cell_id) == {r \in TableRows : r.enodeb = enodeb /\ r.cell = cell_id}

SwapResult(a, b) == [text |-> SwapFound, a |-> a, b |-> b, tag |-> ""]

PlainResult(text) == [text |-> text, a |-> 0, b |-> 0, tag |-> ""]

\* the row of the cell in the final table reads exactly this result
Reports(enodeb, cell_id, result) ==
    /\ RowsFor(enodeb, cell_id) # {}
    /\ \A r \in RowsFor(enodeb, cell_id) : r.result = result

EpSites == Range(EnodebList)

EpRowsOf(enodeb) == Range(ep_enodeb_data(enodeb))

TypeOf(enodeb, row) == final_type(ep_enodeb_data(enodeb))[<<row.cell, row.carrier>>]

SamplesOf(enodeb, cell_id) == SumBlocks(mr_cell_data(mr_enodeb_data(enodeb), cell_id))

\* swap_candidates of the carrier of a site
CandsOf(enodeb, carrier) ==
    swap_candidates(sector_info(ep_enodeb_data(enodeb), carrier),
                    mr_enodeb_data(enodeb), final_type(ep_enodeb_data(enodeb)))

CarrierOf(enodeb, cell_id) ==
    (CHOOSE r \in EpRowsOf(enodeb) : r.cell = cell_id).carrier

\* mutual and (strict or adaptive), on two candidates
Mutual(ca, cb) == ca.target = cb.cell /\ cb.target = ca.cell

Threshold(ca, cb) == strict_swap(ca, cb) \/ adaptive_swap(ca, cb)

AtSite(enodeb, id) == \E r \in EpRowsOf(enodeb) : r.cell = id

AtSiteCarrier(enodeb, id, carrier) ==
    \E r \in EpRowsOf(enodeb) : r.cell = id /\ r.carrier = carrier

\* the configured split pairs / MIMO groups of the cell's layer that name the cell
SplitsOf(row) ==
    {sp \in Range(param_settings.sector_split) :
        sp.Layer = row.carrier /\ row.cell \in {sp.Parrent, sp.Child}}

GroupsOf(row) ==
    {g \in Range(param_settings.massive_mimo) :
        g.Layer = row.carrier /\ row.cell \in Range(g.Beams)}

PartnerIn(sp, cell_id) == IF sp.Parrent = cell_id THEN sp.Child ELSE sp.Parrent

\* some group of the cell has all its beams at the cell's site and carrier
GroupComplete(enodeb, row) ==
    \E g \in GroupsOf(row) :
        \A b \in Range(g.Beams) : AtSiteCarrier(enodeb, b, row.carrier)

MimoResult == [text |-> NoSwapTyped, a |-> 0, b |-> 0, tag |-> MIMO]

\* the standard rule confirms a swap of cell A with its target
StdConfirmed(cands, A) ==
    /\ IsCand(cands, A)
    /\ LET ca == CandOf(cands, A)
       IN /\ ca.target # A
          /\ IsCand(cands, ca.target)
          /\ LET cb == CandOf(cands, ca.target)
             IN /\ ca.total_mr > 0 /\ cb.total_mr > 0
                /\ Mutual(ca, cb)
                /\ Threshold(ca, cb)

\* the verdict of the standard per-cell logic for a cell that is not Massive MIMO
StandardVerdict(enodeb, row) ==
    LET n == SamplesOf(enodeb, row.cell)
        cands == CandsOf(enodeb, row.carrier)
    IN IF n = 0 THEN PlainResult(NoMR)
       ELSE IF n < MinSamples THEN PlainResult(LessMR)
       ELSE IF StdConfirmed(cands, row.cell)
       THEN SwapResult(row.cell, CandOf(cands, row.cell).target)
       ELSE PlainResult(NoSwap)

\* the cell is active and resolved to the plain type
PlainActive(enodeb, row) ==
    /\ SamplesOf(enodeb, row.cell) >= MinSamples
    /\ TypeOf(enodeb, row) = PLAIN

\* highest count in the cell's own direction, with 70% share and 20-point margin
OwnDirection(c) ==
    /\ c.cell \in DOMAIN c.direction_counts
    /\ c.direction_counts[c.cell] = c.max_count
    /\ strict_one(c)

----------------------------------------------------------------------------
(* C1: every row 'Sector Swap Found Between A and B' of the swap table names
   two different cells that are each other's target and that meet the strict
   or the adaptive condition, whatever the resolved cell type (Sector Split
   included). *)
C1_SwapRowIsMutualAndConfirmed ==
    Done =>
        \A r \in TableRows :
            r.result.text = SwapFound =>
                LET A == r.result.a
                    B == r.result.b
                    cands == CandsOf(r.enodeb, CarrierOf(r.enodeb, r.cell))
                IN /\ A = r.cell
                   /\ A # B
                   /\ IsCand(cands, A) /\ IsCand(cands, B)
                   /\ Mutual(CandOf(cands, A), CandOf(cands, B))
                   /\ Threshold(CandOf(cands, A), CandOf(cands, B))


(* C2, as stated: two distinct plain cells A, B of one site and carrier, each
   with at least 50 samples, that are each other's target and meet the strict
   or the adaptive condition both report the swap with each other; a plain
   active cell whose highest count is its own direction with 70% share and
   20-point margin reports 'No Sector Swap Found'. *)
C2_PlainPairReportsSwap ==
    Done =>
        \A enodeb \in EpSites :
            \A ra \in EpRowsOf(enodeb) :
                PlainActive(enodeb, ra) =>
                    LET cands == CandsOf(enodeb, ra.carrier)
                        ca == CandOf(cands, ra.cell)
                    IN /\ \A rb \in EpRowsOf(enodeb) :
                              (/\ rb.cell # ra.cell
                               /\ rb.carrier = ra.carrier
                               /\ PlainActive(enodeb, rb)
                               /\ Mutual(ca, CandOf(cands, rb.cell))
                               /\ Threshold(ca, CandOf(cands, rb.cell)))
                              => /\ Reports(enodeb, ra.cell, SwapResult(ra.cell, rb.cell))
                                 /\ Reports(enodeb, rb.cell, SwapResult(rb.cell, ra.cell))
                       /\ OwnDirection(ca) => Reports(enodeb, ra.cell, PlainResult(NoSwap))

(* C2, amended: the same, for pairs in which both cells have a positive total
   (at least one sample inside some cone of the carrier). *)
C2_PlainPairWithSamplesInConesReportsSwap ==
    Done =>
        \A enodeb \in EpSites :
            \A ra \in EpRowsOf(enodeb) :
                PlainActive(enodeb, ra) =>
                    LET cands == CandsOf(enodeb, ra.carrier)
                        ca == CandOf(cands, ra.cell)
                    IN /\ \A rb \in EpRowsOf(enodeb) :
                              (/\ rb.cell # ra.cell
                               /\ rb.carrier = ra.carrier
                               /\ PlainActive(enodeb, rb)
                               /\ ca.total_mr > 0
                               /\ CandOf(cands, rb.cell).total_mr > 0
                               /\ Mutual(ca, CandOf(cands, rb.cell))
                               /\ Threshold(ca, CandOf(cands, rb.cell)))
                              => /\ Reports(enodeb, ra.cell, SwapResult(ra.cell, rb.cell))
                                 /\ Reports(enodeb, rb.cell, SwapResult(rb.cell, ra.cell))
                       /\ OwnDirection(ca) => Reports(enodeb, ra.cell, PlainResult(NoSwap))

\* C2: a finished analysis with a plain pair confirmed by the adaptive
\* condition alone, and a plain active cell that keeps its own direction
C2_Witness ==
    /\ Done
    /\ \E enodeb \in EpSites :
        \E ra \in EpRowsOf(enodeb), rb \in EpRowsOf(enodeb), rc \in EpRowsOf(enodeb) :
            /\ ra.cell # rb.cell /\ ra.carrier = rb.carrier /\ rc.carrier = ra.carrier
            /\ PlainActive(enodeb, ra) /\ PlainActive(enodeb, rb) /\ PlainActive(enodeb, rc)
            /\ LET cands == CandsOf(enodeb, ra.carrier)
                   ca == CandOf(cands, ra.cell)
                   cb == CandOf(cands, rb.cell)
                   cc == CandOf(cands, rc.cell)
               IN /\ Mutual(ca, cb) /\ adaptive_swap(ca, cb) /\ ~strict_swap(ca, cb)
                  /\ Reports(enodeb, ra.cell, SwapResult(ra.cell, rb.cell))
                  /\ OwnDirection(cc) /\ cc.total_mr > 0
                  /\ Reports(enodeb, rc.cell, PlainResult(NoSwap))

(* C3: a cell of a configured massive-MIMO group whose beams all exist at the
   cell's site and carrier is reported 'No Sector Swap Found - Massive MIMO'
   with Cell Type 'Massive MIMO', and no row reports a swap with it. *)
C3_CompleteGroupIsMimo ==
    Done =>
        \A enodeb \in EpSites :
            \A row \in EpRowsOf(enodeb) :
                GroupComplete(enodeb, row) =>
                    /\ Reports(enodeb, row.cell, MimoResult)
                    /\ \A r \in RowsFor(enodeb, row.cell) : r.cell_type = MIMO
                    /\ ~\E r \in TableRows :
                          /\ r.enodeb = enodeb
                          /\ r.result.text = SwapFound
                          /\ r.result.b = row.cell

(* C4: a row with Cell Type 'Sector Split' that reads 'Sector Swap Found
   Between A and B' names a B that is configured as A's split partner and
   whose own row has Cell Type 'Sector Split'. *)
C4_SplitSwapsWithPartnerOnly ==
    Done =>
        \A r \in TableRows :
            (r.cell_type = SPLIT /\ r.result.text = SwapFound) =>
                /\ \E sp \in Range(param_settings.sector_split) :
                      /\ sp.Layer = CarrierOf(r.enodeb, r.cell)
                      /\ {sp.Parrent, sp.Child} = {r.result.a, r.result.b}
                /\ \A rb \in RowsFor(r.enodeb, r.result.b) : rb.cell_type = SPLIT

(* C5: a cell that is in a configured split pair whose partner is at the site
   and also in a configured massive-MIMO group has Cell Type 'Massive MIMO'
   when all beams of a group of it exist at its site and carrier, and
   'Sector Split' otherwise. *)
C5_SplitAndMimoResolution ==
    Done =>
        \A enodeb \in EpSites :
            \A row \in EpRowsOf(enodeb) :
                (/\ \E sp \in SplitsOf(row) : AtSite(enodeb, PartnerIn(sp, row.cell))
                 /\ GroupsOf(row) # {}) =>
                    /\ RowsFor(enodeb, row.cell) # {}
                    /\ \A r \in RowsFor(enodeb, row.cell) :
                          r.cell_type = IF GroupComplete(enodeb, row) THEN MIMO ELSE SPLIT


(* C6: a cell whose row is not of type Massive MIMO reads 'NO MR Data found
   for the cell' with 0 attributed samples, 'Less Number of MR Points' with
   1 to 49 samples, and 'Sector Swap Found Between ...' or 'No Sector Swap
   Found' with 50 or more; both cells named by a swap row have at least 50
   samples. *)
C6_StatusFollowsSampleCount ==
    Done =>
        /\ \A enodeb \in EpSites :
            \A row \in EpRowsOf(enodeb) :
                /\ RowsFor(enodeb, row.cell) # {}
                /\ \A r \in RowsFor(enodeb, row.cell) :
                      r.cell_type # MIMO =>
                          LET n == SamplesOf(enodeb, row.cell)
                          IN /\ n = 0 => r.result = PlainResult(NoMR)
                             /\ (1 <= n /\ n <= 49) => r.result = PlainResult(LessMR)
                             /\ n >= 50 => \/ r.result = PlainResult(NoSwap)
                                           \/ /\ r.result.text = SwapFound
                                              /\ r.result.a = row.cell
        /\ \A r \in TableRows :
              r.result.text = SwapFound =>
                  /\ SamplesOf(r.enodeb, r.result.a) >= 50
                  /\ SamplesOf(r.enodeb, r.result.b) >= 50

\* C6: a finished analysis whose table holds a cell without samples, a cell
\* with 49 samples and a swap row of a cell with exactly 50 samples
C6_Witness ==
    /\ Done
    /\ \E ra \in TableRows, rb \in TableRows, rc \in TableRows :
        /\ ra.result = PlainResult(NoMR) /\ SamplesOf(ra.enodeb, ra.cell) = 0
        /\ rb.result = PlainResult(LessMR) /\ SamplesOf(rb.enodeb, rb.cell) = 49
        /\ rc.result.text = SwapFound /\ SamplesOf(rc.enodeb, rc.cell) = 50

\* the distinct (site, cell) of the EP table
EpCells == {<<ep_data[i].site, ep_data[i].cell>> : i \in 1..Len(ep_data)}

(* C7: the table returned by sector_swap_analysis has exactly one row for
   every EP cell (site, cell); the status of a row is one of the five forms
   and its Cell Type is '', 'Sector Split' or 'Massive MIMO'. *)
C7_OneRowPerEpCell ==
    Done =>
        /\ Len(result_df) = Cardinality(EpCells)
        /\ {<<result_df[i].enodeb, result_df[i].cell>> : i \in 1..Len(result_df)} = EpCells
        /\ \A r \in TableRows :
              /\ r.cell_type \in {PLAIN, SPLIT, MIMO}
              /\ \/ r.result \in {PlainResult(NoSwap), PlainResult(NoMR),
                                  PlainResult(LessMR), MimoResult}
                 \/ /\ r.result.text = SwapFound
                    /\ r.result.tag = ""
                    /\ <<r.enodeb, r.result.a>> \in EpCells
                    /\ <<r.enodeb, r.result.b>> \in EpCells

\* C7: a finished analysis of two sites, one of them with a swap row, the
\* other without
C7_Witness ==
    /\ Done
    /\ Cardinality(EpSites) >= 2
    /\ Len(result_df) >= 4
    /\ \E ra \in TableRows, rb \in TableRows :
        /\ ra.enodeb # rb.enodeb
        /\ ra.result.text = SwapFound
        /\ rb.result.text # SwapFound

\* some configured pairing of the cell lacks a member at the site
HasAbsentPairing(enodeb, row) ==
    \/ \E sp \in SplitsOf(row) : ~AtSite(enodeb, PartnerIn(sp, row.cell))
    \/ \E g \in GroupsOf(row) : \E b \in Range(g.Beams) : ~AtSite(enodeb, b)

\* every configured pairing of the cell lacks a member at the site
NoPresentPairing(enodeb, row) ==
    /\ \A sp \in SplitsOf(row) : ~AtSite(enodeb, PartnerIn(sp, row.cell))
    /\ \A g \in GroupsOf(row) : \E b \in Range(g.Beams) : ~AtSite(enodeb, b)

(* C8, as stated: a cell with a configured split partner, or with a beam of a
   configured MIMO group, absent from the site's EP rows has Cell Type '' and
   the verdict of the standard rule. *)
C8_AbsentMemberMeansPlain ==
    Done =>
        \A enodeb \in EpSites :
            \A row \in EpRowsOf(enodeb) :
                HasAbsentPairing(enodeb, row) =>
                    /\ Reports(enodeb, row.cell, StandardVerdict(enodeb, row))
                    /\ \A r \in RowsFor(enodeb, row.cell) : r.cell_type = PLAIN

(* C8, amended: the same, for a cell of which every configured pairing (split
   pair or MIMO group) lacks a member at the site. *)
C8_NoPresentPairingMeansPlain ==
    Done =>
        \A enodeb \in EpSites :
            \A row \in EpRowsOf(enodeb) :
                (HasAbsentPairing(enodeb, row) /\ NoPresentPairing(enodeb, row)) =>
                    /\ Reports(enodeb, row.cell, StandardVerdict(enodeb, row))
                    /\ \A r \in RowsFor(enodeb, row.cell) : r.cell_type = PLAIN

\* C8: a finished analysis in which a cell whose split partner is absent and
\* whose MIMO group lacks a beam is reported swapped by the standard rule
C8_Witness ==
    /\ Done
    /\ \E enodeb \in EpSites :
        \E row \in EpRowsOf(enodeb) :
            /\ \E sp \in SplitsOf(row) : ~AtSite(enodeb, PartnerIn(sp, row.cell))
            /\ GroupsOf(row) # {}
            /\ NoPresentPairing(enodeb, row)
            /\ StandardVerdict(enodeb, row).text = SwapFound
            /\ Reports(enodeb, row.cell, StandardVerdict(enodeb, row))


\* the carriers of a site, and the cell ids of one carrier of a site
CarriersOf(enodeb) == {r.carrier : r \in EpRowsOf(enodeb)}

CellsOn(enodeb, carrier) == {r.cell : r \in {x \in EpRowsOf(enodeb) : x.carrier = carrier}}

\* the samples of cell C whose bearing lies in the cone of cell D
InConeOf(enodeb, C, D) ==
    LET az == (CHOOSE r \in EpRowsOf(enodeb) : r.cell = D).az
    IN SumBlocks({b \in mr_enodeb_data(enodeb) : b.cell = C /\ InCone(b.brg, az)})

\* the candidates of all carriers of all sites, each with its site and carrier
AllCands ==
    UNION {UNION {{[enodeb |-> enodeb, carrier |-> l, c |-> c] :
                      c \in Range(CandsOf(enodeb, l))} :
                  l \in CarriersOf(enodeb)} :
           enodeb \in EpSites}

(* C9, as stated: direction_counts of an active cell C has entries for the
   other cells of its site and carrier only, each the number of C's samples in
   the cone of that cell, and target(C) is never C. *)
C9_CountsOverOtherCellsOnly ==
    Done =>
        \A e \in AllCands :
            /\ DOMAIN e.c.direction_counts = CellsOn(e.enodeb, e.carrier) \ {e.c.cell}
            /\ \A D \in DOMAIN e.c.direction_counts :
                  e.c.direction_counts[D] = InConeOf(e.enodeb, e.c.cell, D)
            /\ e.c.target # e.c.cell

(* C9, amended: direction_counts of an active cell C has an entry for every
   cell of its site and carrier, C included, each the number of C's samples in
   the cone of that cell; target(C) is a cell with the highest count and may
   be C, max_count is that count, total is the sum of all entries and
   second_max_count is the highest count of the cells other than the target;
   a cell whose target is itself is reported 'No Sector Swap Found'. *)
C9_CountsOverAllCellsOfCarrier ==
    Done =>
        \A e \in AllCands :
            LET dc == e.c.direction_counts
                cells == CellsOn(e.enodeb, e.carrier)
            IN /\ DOMAIN dc = cells
               /\ \A D \in cells : dc[D] = InConeOf(e.enodeb, e.c.cell, D)
               /\ e.c.target \in cells
               /\ \A D \in cells : dc[D] <= dc[e.c.target]
               /\ e.c.max_count = dc[e.c.target]
               /\ e.c.total_mr = SumSeq([i \in 1..Cardinality(cells) |->
                                            dc[SetToSeq(cells)[i]]])
               /\ e.c.second_max_count = MaxOf({dc[D] : D \in cells \ {e.c.target}})
               /\ e.c.target = e.c.cell =>
                      Reports(e.enodeb, e.c.cell, PlainResult(NoSwap))

\* C9: a finished analysis with an active cell whose highest count is the
\* count of its own cone, next to a positive count for another cell
C9_Witness ==
    /\ Done
    /\ \E e \in AllCands :
        /\ e.c.target = e.c.cell
        /\ e.c.direction_counts[e.c.cell] > 0
        /\ \E D \in DOMAIN e.c.direction_counts :
              D # e.c.cell /\ e.c.direction_counts[D] > 0
        /\ Reports(e.enodeb, e.c.cell, PlainResult(NoSwap))

\* the distinct (site, cell, carrier) of the EP table
EpSectors ==
    {<<ep_data[i].site, ep_data[i].cell, ep_data[i].carrier>> : i \in 1..Len(ep_data)}

(* C10: analyze_coverage returns exactly one row for every distinct (site,
   cell, carrier) of the EP table, also when the EP latitude of a sector is
   not numeric. *)
C10_OneRowPerSector ==
    Done =>
        /\ Len(result_df) = Cardinality(EpSectors)
        /\ {<<result_df[i].site, result_df[i].cell, result_df[i].carrier>> :
               i \in 1..Len(result_df)} = EpSectors


----------------------------------------------------------------------------
(* Vocabulary of the claims about the coverage table *)

CovRows == Range(result_df)

\* the MR rows of the sector of a coverage row, and the well-formed ones
SectorMR(site_id, cell_id) == {b \in mr_data : b.site = site_id /\ b.cell = cell_id}

WellFormed(site_id, cell_id) == {b \in SectorMR(site_id, cell_id) : b.numeric}

\* the sector has samples, all of them well-formed
AllWellFormed(r) ==
    /\ SectorMR(r.site, r.cell) # {}
    /\ WellFormed(r.site, r.cell) = SectorMR(r.site, r.cell)

\* the five bins (-70,-40], (-85,-70], (-95,-85], (-105,-95], (-inf,-105]
RsrpBinOf(rsrp) ==
    IF rsrp > -70 THEN 1
    ELSE IF rsrp > -85 THEN 2
    ELSE IF rsrp > -95 THEN 3
    ELSE IF rsrp > -105 THEN 4
    ELSE 5

\* the five bins [0,300), [300,500), [500,700), [700,1000), [1000,inf)
DistBinOf(dist) ==
    IF dist < 300 THEN 1
    ELSE IF dist < 500 THEN 2
    ELSE IF dist < 700 THEN 3
    ELSE IF dist < 1000 THEN 4
    ELSE 5

(* C11: for a sector whose samples are all well-formed with RSRP <= -40, the
   count of each RSRP bin is the number of samples in (-70,-40], (-85,-70],
   (-95,-85], (-105,-95], (-inf,-105], and the five counts add up to the
   number of samples. *)
C11_RsrpBins ==
    Done =>
        \A r \in CovRows :
            (AllWellFormed(r) /\ \A b \in SectorMR(r.site, r.cell) : b.rsrp <= -40) =>
                /\ \A i \in 1..5 :
                      r.rsrp_counts[i] =
                          SumBlocks({b \in SectorMR(r.site, r.cell) : RsrpBinOf(b.rsrp) = i})
                /\ SumSeq(r.rsrp_counts) = SumBlocks(SectorMR(r.site, r.cell))

(* C12: every well-formed sample is counted in the distance bin [0,300),
   [300,500), [500,700), [700,1000), [1000,inf) that holds its distance; the
   percentage of a bin is its count over the number of samples of the sector,
   times 100, to one decimal; when all samples are well-formed the five counts
   add up to the number of samples. *)
C12_DistanceBins ==
    Done =>
        \A r \in CovRows :
            WellFormed(r.site, r.cell) # {} =>
                LET total == SumBlocks(SectorMR(r.site, r.cell)) IN
                /\ \A i \in 1..5 :
                      /\ r.dist_counts[i] =
                            SumBlocks({b \in WellFormed(r.site, r.cell) : DistBinOf(b.dist) = i})
                      /\ 2 * Abs(r.dist_pct[i] * total - 1000 * r.dist_counts[i]) <= total
                /\ r.total = total
                /\ AllWellFormed(r) => SumSeq(r.dist_counts) = total

\* C12: a finished analysis of a sector with samples at exactly 300 m and at
\* exactly 1000 m, counted in the second and in the last bin
C12_Witness ==
    /\ Done
    /\ \E r \in CovRows :
        /\ AllWellFormed(r)
        /\ {b.dist : b \in SectorMR(r.site, r.cell)} = {300, 1000}
        /\ r.dist_counts[2] > 0 /\ r.dist_counts[5] > 0
        /\ r.dist_counts[1] = 0 /\ r.dist_counts[4] = 0
        /\ r.dist_pct[2] + r.dist_pct[5] = 1000


\* the well-formed samples of a sector with RSRP < -105 dBm
Below105(site_id, cell_id) ==
    SumBlocks({b \in WellFormed(site_id, cell_id) : b.rsrp < -105})

(* C13, as stated: for a sector with at least one sample the status is 'Poor
   Coverage' exactly when more than 50% of its samples have RSRP < -105 dBm,
   and 'Good Coverage' otherwise. *)
C13_PoorAboveHalf ==
    Done =>
        \A r \in CovRows :
            SectorMR(r.site, r.cell) # {} =>
                r.status = IF 2 * Below105(r.site, r.cell) > SumBlocks(SectorMR(r.site, r.cell))
                           THEN PoorCoverage ELSE GoodCoverage

(* C13, amended: for a sector with at least one well-formed sample the status
   is 'Poor Coverage' exactly when the well-formed samples with RSRP < -105 dBm
   are more than 50% of all samples of the sector, and 'Good Coverage'
   otherwise (so at exactly 50%); a sector whose samples are all malformed has
   status 'No MR Data'. *)
C13_PoorAboveHalfOfWellFormedSector ==
    Done =>
        \A r \in CovRows :
            SectorMR(r.site, r.cell) # {} =>
                r.status = IF WellFormed(r.site, r.cell) = {} THEN NoMRData
                           ELSE IF 2 * Below105(r.site, r.cell)
                                       > SumBlocks(SectorMR(r.site, r.cell))
                           THEN PoorCoverage ELSE GoodCoverage

\* C13: a finished analysis with a sector at exactly 50% below -105 dBm
\* reported Good, and with a sector above 50% reported Poor
C13_Witness ==
    /\ Done
    /\ \E r \in CovRows :
        /\ Below105(r.site, r.cell) > 0
        /\ 2 * Below105(r.site, r.cell) = SumBlocks(SectorMR(r.site, r.cell))
        /\ r.status = GoodCoverage
    /\ \E r \in CovRows :
        /\ 2 * Below105(r.site, r.cell) > SumBlocks(SectorMR(r.site, r.cell))
        /\ r.status = PoorCoverage

\* the (site, cell) that MR rows reference
MrSectors == {<<b.site, b.cell>> : b \in mr_data}

ZeroFilled(r) ==
    /\ r.dist_pct = <<0, 0, 0, 0, 0>>
    /\ r.rsrp_pct = <<0, 0, 0, 0, 0>>
    /\ r.score = 0
    /\ r.total = 0

(* C14: a sector that MR rows reference and that has no EP row has a
   zero-filled row with status 'No EP Data' in the coverage table. *)
C14_MrOnlySectorHasNoEpDataRow ==
    Done =>
        \A k \in MrSectors :
            k \notin EpCells =>
                \E r \in CovRows :
                    /\ r.site = k[1] /\ r.cell = k[2]
                    /\ r.status = NoEPData
                    /\ ZeroFilled(r)

(* C15: an EP sector without MR rows has a row in the coverage table whose
   ten bin percentages and overall score are 0.0%, whose sample count is 0
   and whose status is 'No MR Data'. *)
C15_SectorWithoutSamplesHasSentinelRow ==
    Done =>
        \A k \in EpSectors :
            SectorMR(k[1], k[2]) = {} =>
                \E r \in CovRows :
                    /\ r.site = k[1] /\ r.cell = k[2] /\ r.carrier = k[3]
                    /\ r.status = NoMRData
                    /\ ZeroFilled(r)


----------------------------------------------------------------------------
(* Neighbor relation finder: NeighborCalculator of neighbor_audit_window.py.
   The masts stand on a line: pos is the place of a sector's mast in
   millimetres, so calculate_distance is the difference of two places and
   the Distance column, rounded to 2 decimals of a metre, is a multiple of
   10.  args = [search_radius, max_neighbors], search_radius in mm. *)

IntraFrequency == "Intra-Frequency"

InterFrequency == "Inter-Frequency"

\* calculate_distance, in mm
calculate_distance(serving_cell, neighbor_cell) == Abs(serving_cell.pos - neighbor_cell.pos)

\* round(distance, 2), in mm (the places of the inputs give no distance
\* half-way between two hundredths)
round2(distance) == ((distance + 5) \div 10) * 10

\* the difference of two azimuths without the wrap at north
abs_difference(az1, az2) == Abs(az1 - az2)

calculate_azimuth_difference(az1, az2) ==
    LET diff == Abs(az1 - az2)
    IN IF diff <= 360 - diff THEN diff ELSE 360 - diff

\* the dict appended to cell_neighbors for one candidate
NeighborEntry(serving_cell, neighbor_cell) ==
    [serving_site |-> serving_cell.site, serving_cell |-> serving_cell.cell,
     neighbor_site |-> neighbor_cell.site, neighbor_cell |-> neighbor_cell.cell,
     distance |-> round2(calculate_distance(serving_cell, neighbor_cell)),
     azimuth_difference |-> calculate_azimuth_difference(serving_cell.az, neighbor_cell.az),
     neighbor_type |-> IF serving_cell.carrier = neighbor_cell.carrier
                       THEN IntraFrequency ELSE InterFrequency,
     serving_carrier |-> serving_cell.carrier,
     neighbor_carrier |-> neighbor_cell.carrier]

\* variant: a candidate exactly at the radius is left out
in_radius_strict(distance) == distance < args.search_radius

\* distance <= search_radius
in_radius(distance) == distance <= args.search_radius

RECURSIVE CandidateScan(_, _)
\* the inner loop over the EP rows from idx2 on: the candidates of row idx1
CandidateScan(idx1, idx2) ==
    IF idx2 > Len(ep_data) THEN <<>>
    ELSE LET serving_cell == ep_data[idx1]
             neighbor_cell == ep_data[idx2]
             rest == CandidateScan(idx1, idx2 + 1)
         IN IF idx1 = idx2 THEN rest
            \* float() of a coordinate raises: the comparison is skipped
            ELSE IF ~(serving_cell.lat_numeric /\ neighbor_cell.lat_numeric) THEN rest
            ELSE IF in_radius(calculate_distance(serving_cell, neighbor_cell))
            THEN <<NeighborEntry(serving_cell, neighbor_cell)>> \o rest
            ELSE rest

\* cell_neighbors after the sort by Distance and the cut at max_neighbors
cell_neighbors(idx1) ==
    LET found == CandidateScan(idx1, 1)
        srt == sort_values(found, [i \in 1..Len(found) |-> found[i].distance])
    IN SubSeq(srt, 1, IF Len(srt) < args.max_neighbors
                      THEN Len(srt) ELSE args.max_neighbors)

\* int(min(85, 10 + (processed_cells / total_cells * 75)))
neighbor_progress(done, total_cells) ==
    LET value == 10 + (75 * done) \div total_cells
    IN IF value < 85 THEN value ELSE 85

\* find_neighbors up to its loop
find_neighbors_begin ==
    /\ pc = "idle"
    /\ pc' = "neighbors"
    /\ results' = <<>>
    /\ processed_cells' = 0
    /\ progress' = IF args.progress_callback THEN <<10>> ELSE <<>>
    /\ UNCHANGED <<ep_data, mr_data, param_settings, futures, result_df,
                   cell_combinations, args, site_keys, is_analyzing, frames, coords>>

\* one round of the outer loop, for the serving cell of row processed_cells + 1
find_neighbors_cell ==
    /\ pc = "neighbors"
    /\ processed_cells < Len(ep_data)
    /\ LET total_cells == Len(ep_data)
           step == IF total_cells \div 100 > 1 THEN total_cells \div 100 ELSE 1
       IN progress' = IF processed_cells % step = 0
                      THEN report(neighbor_progress(processed_cells, total_cells))
                      ELSE progress
    /\ results' = results \o cell_neighbors(processed_cells + 1)
    /\ processed_cells' = processed_cells + 1
    /\ UNCHANGED <<ep_data, mr_data, param_settings, pc, futures, result_df,
                   cell_combinations, args, site_keys, is_analyzing, frames, coords>>

\* after the loop: the last progress update and the returned table
find_neighbors_end ==
    /\ pc = "neighbors"
    /\ processed_cells = Len(ep_data)
    /\ progress' = report(85)
    /\ result_df' = results
    /\ pc' = "done"
    /\ UNCHANGED <<ep_data, mr_data, param_settings, futures, results,
                   processed_cells, cell_combinations, args, site_keys, is_analyzing, frames, coords>>


\* bound: the number of EP rows of the neighbor inputs
NumNbrSectors == 4

\* places of the masts: 500 m, 500.001 m and 500.004 m from the first
NbrPos == {0, 500000, 500001, 500004}

\* search radii: 500 m and 501 m
Radii == {500000, 501000}

MaxNeighborsChoices == {1, 2, 3}

\* an EP row of the neighbor inputs: the sectors of one place form one site
NbrRow(i, pos, carrier, numeric) ==
    [site |-> Cardinality({q \in NbrPos : q < pos}) + 1, cell |-> i,
     carrier |-> carrier, az |-> ((i - 1) * 100) % 360, pos |-> pos,
     lat_numeric |-> numeric]

\* family 1 of the neighbor inputs: up to NumNbrSectors EP rows at any places,
\* some of them on the second carrier, the second one with or without a
\* non-numeric latitude
InitNbrPlaces ==
    \E n \in 1..NumNbrSectors, l2 \in {{}, {2}, {1, 3}}, bad \in BOOLEAN :
        \E pos \in [1..n -> NbrPos], radius \in Radii, maxn \in MaxNeighborsChoices :
            /\ l2 \subseteq 1..n
            /\ bad => n >= 2
            /\ ep_data = [i \in 1..n |->
                            NbrRow(i, pos[i], IF i \in l2 THEN L2 ELSE L1,
                                   ~(bad /\ i = 2))]
            /\ args = [search_radius |-> radius, max_neighbors |-> maxn,
                       progress_callback |-> TRUE]

\* places of six EP rows: seen from the rows at 0 all five others are in range
FiveInRange ==
    {<<0, 500004, 500001, 500000, 500000, 500001>>,
     <<500004, 500000, 0, 500001, 500001, 500000>>}

\* family 2 of the neighbor inputs: six EP rows, max_neighbors = 2
InitNbrFive ==
    \E pos \in FiveInRange :
        /\ ep_data = [i \in 1..6 |-> NbrRow(i, pos[i], L1, TRUE)]
        /\ args = [search_radius |-> 501000, max_neighbors |-> 2,
                    progress_callback |-> TRUE]

InitNeighbors ==
    /\ InitNbrPlaces \/ InitNbrFive
    /\ mr_data = {}
    /\ param_settings = [sector_split |-> <<>>, massive_mimo |-> <<>>]
    /\ pc = "idle"
    /\ futures = {}
    /\ is_analyzing = FALSE
    /\ frames = <<>>
    /\ site_keys = {}
    /\ results = <<>>
    /\ processed_cells = 0
    /\ progress = <<>>
    /\ result_df = <<>>
    /\ cell_combinations = <<>>
    /\ coords = <<>>

NextNeighbors ==
    \/ find_neighbors_begin
    \/ find_neighbors_cell
    \/ find_neighbors_end

SpecNeighbors == InitNeighbors /\ [][NextNeighbors]_vars

(* -------------------------------------------------------------------------
   The progress reports of the three analyses.  sector_swap_analysis,
   analyze_coverage and find_neighbors take an optional progress_callback
   (default None); args.call names the analysis that runs and
   args.progress_callback tells whether a callback was supplied.
   ------------------------------------------------------------------------- *)

\* the neighbor inputs of the progress runs: up to NumNbrSectors EP rows, each
\* on the first mast or 500 m from it
InitProgressNeighbors(supplied) ==
    \E n \in 1..NumNbrSectors, maxn \in {1, 3} :
        \E pos \in [1..n -> {0, 500000}] :
            /\ ep_data = [i \in 1..n |-> NbrRow(i, pos[i], L1, TRUE)]
            /\ mr_data = {}
            /\ param_settings = [sector_split |-> <<>>, massive_mimo |-> <<>>]
            /\ args = [call |-> "find_neighbors", search_radius |-> 500000,
                       max_neighbors |-> maxn, progress_callback |-> supplied]

InitProgress ==
    /\ \E supplied \in BOOLEAN :
          \/ /\ InitSites
             /\ args = [call |-> "sector_swap_analysis", progress_callback |-> supplied]
          \/ /\ InitCovSectors
             /\ args = [call |-> "analyze_coverage", progress_callback |-> supplied]
          \/ InitProgressNeighbors(supplied)
    /\ pc = "idle"
    /\ futures = {}
    /\ is_analyzing = FALSE
    /\ frames = <<>>
    /\ site_keys = {}
    /\ results = <<>>
    /\ processed_cells = 0
    /\ progress = <<>>
    /\ result_df = <<>>
    /\ cell_combinations = <<>>
    /\ coords = <<>>

NextProgress ==
    \/ args.call = "sector_swap_analysis" /\ Next
    \/ args.call = "analyze_coverage" /\ NextCoverage
    \/ args.call = "find_neighbors" /\ NextNeighbors

SpecProgress == InitProgress /\ [][NextProgress]_vars

(* -------------------------------------------------------------------------
   The conditions of the pair pass as functions of the two histograms.  One
   site with the plain cells 1, 2 and 3 on one carrier; the samples of cell 1
   and of cell 2 lie on the planned azimuths of the three cells, ten at a
   time, so that every direction count is a free multiple of ten.  results
   holds the conditions lines 431-441 compute for cell 1 and its target.
   ------------------------------------------------------------------------- *)

\* tens of samples on the azimuth of one cell
HistCounts == {0, 1, 3, 6, 7}

\* the MR rows of a cell whose histogram over the cells 1, 2, 3 is 10 * counts
HistSamples(cell_id, counts) ==
    {Block(1, cell_id, AzOf(j), 10 * counts[j]) : j \in {i \in 1..3 : counts[i] > 0}}

\* lines 420-441 for the candidate of the first EP row and its target
pair_conditions ==
    /\ pc = "idle"
    /\ LET info == sector_info(ep_enodeb_data(1), L1)
           cands == swap_candidates(info, mr_enodeb_data(1), final_type(ep_enodeb_data(1)))
           c == CandOf(cands, 1)
           t == CandOf(cands, c.target)
       IN results' = <<[cell |-> c.cell, target |-> c.target,
                        totals |-> <<c.total_mr, t.total_mr>>,
                        mutual |-> (t.target = c.cell),
                        adaptive_swap |-> adaptive_swap(c, t),
                        strict_swap |-> strict_swap(c, t),
                        verdict |-> PairCondition(c, t)]>>
    /\ pc' = "done"
    /\ UNCHANGED <<ep_data, mr_data, param_settings, futures, processed_cells,
                   progress, result_df, cell_combinations, args, site_keys, is_analyzing, frames, coords>>

InitHistograms ==
    /\ \E ca \in [1..3 -> HistCounts], cb \in [1..3 -> HistCounts] :
          /\ ca[1] + ca[2] + ca[3] >= 5
          /\ cb[1] + cb[2] + cb[3] >= 5
          /\ mr_data = HistSamples(1, ca) \cup HistSamples(2, cb)
                       \cup HistSamples(3, [j \in 1..3 |-> IF j = 3 THEN 5 ELSE 0])
    /\ ep_data = <<EpRow(1, 1, L1), EpRow(1, 2, L1), EpRow(1, 3, L1)>>
    /\ param_settings = [sector_split |-> <<>>, massive_mimo |-> <<>>]
    /\ args = NoArgs
    /\ pc = "idle"
    /\ futures = {}
    /\ is_analyzing = FALSE
    /\ frames = <<>>
    /\ site_keys = {}
    /\ results = <<>>
    /\ processed_cells = 0
    /\ progress = <<>>
    /\ result_df = <<>>
    /\ cell_combinations = <<>>
    /\ coords = <<>>

NextHistograms == pair_conditions

SpecHistograms == InitHistograms /\ [][NextHistograms]_vars

(* -------------------------------------------------------------------------
   The two angular differences as functions of a pair of azimuths in whole
   degrees: calculate_azimuth_difference of the neighbor audit (the azimuth
   table computes the same two lines inline) and the cone test of the swap
   detector.  args = [call, az1, az2]; results holds the returned values.
   ------------------------------------------------------------------------- *)

Azimuths == 0..359

\* calculate_azimuth_difference(az1, az2) and the call with the arguments swapped
angle_difference ==
    /\ pc = "idle"
    /\ results' = <<calculate_azimuth_difference(args.az1, args.az2),
                    calculate_azimuth_difference(args.az2, args.az1)>>
    /\ pc' = "cone"
    /\ UNCHANGED <<ep_data, mr_data, param_settings, futures, processed_cells,
                   progress, result_df, cell_combinations, args, site_keys, is_analyzing, frames, coords>>

\* the cone test of the first pass for a sample at bearing az1 and a sector
\* of azimuth az2
angle_cone ==
    /\ pc = "cone"
    /\ results' = Append(results, az_diff(args.az1, args.az2))
    /\ pc' = "done"
    /\ UNCHANGED <<ep_data, mr_data, param_settings, futures, processed_cells,
                   progress, result_df, cell_combinations, args, site_keys, is_analyzing, frames, coords>>

InitAngles ==
    /\ \E az1 \in Azimuths, az2 \in Azimuths :
          args = [call |-> "calculate_azimuth_difference", az1 |-> az1, az2 |-> az2]
    /\ ep_data = <<>>
    /\ mr_data = {}
    /\ param_settings = [sector_split |-> <<>>, massive_mimo |-> <<>>]
    /\ pc = "idle"
    /\ futures = {}
    /\ is_analyzing = FALSE
    /\ frames = <<>>
    /\ site_keys = {}
    /\ results = <<>>
    /\ processed_cells = 0
    /\ progress = <<>>
    /\ result_df = <<>>
    /\ cell_combinations = <<>>
    /\ coords = <<>>

NextAngles ==
    \/ angle_difference
    \/ angle_cone

SpecAngles == InitAngles /\ [][NextAngles]_vars

(* -------------------------------------------------------------------------
   analyze_data of the analysis windows (sector swap, coverage, azimuth,
   coordinates): the four methods share one skeleton.  The handler runs on the
   GUI thread; every QApplication.processEvents() inside it may deliver a
   further click on the Analyze button, which runs a nested analyze_data to
   its end before the outer call goes on.  frames is that call stack, each
   frame standing at one of
     "entry"     called, before the test of is_analyzing
     "started"   flag set, progress dialog shown, in the first processEvents
     "analysis"  inside the inner try, up to the end of the calculation
     "display"   calculation returned, results being saved and displayed
     "failed"    in the inner except clause
   args = [call, window, data_available]; results is the log of the outcomes
   of the calls that returned.
   ------------------------------------------------------------------------- *)

\* bound: the number of clicks on the Analyze button in one run
MaxClicks == 3

Windows == {"sector_swap", "coverage", "actual_azimuth", "actual_coordinates"}

\* the positions in which the handler stands in a processEvents call
EventPoints == {"started", "analysis", "display"}

Top == frames[Len(frames)]

Pop == SubSeq(frames, 1, Len(frames) - 1)

MoveTo(at) == [frames EXCEPT ![Len(frames)] = [at |-> at]]

\* variant of entry_outcome without the test of the flag
entry_outcome_unguarded(flag, data_available) ==
    IF ~data_available THEN "no data" ELSE "started"

\* "if self.is_analyzing: ... return" and "if not self.load_data(): ... return"
entry_outcome(flag, data_available) ==
    IF flag THEN "rejected"
    ELSE IF ~data_available THEN "no data"
    ELSE "started"

\* analyze_btn.clicked: delivered by the event loop, idle or inside processEvents
click ==
    /\ pc = "window"
    /\ Len(results) + Len(frames) < MaxClicks
    /\ IF frames = <<>> THEN TRUE ELSE Top.at \in EventPoints
    /\ frames' = Append(frames, [at |-> "entry"])
    /\ UNCHANGED <<ep_data, mr_data, param_settings, pc, futures, results, processed_cells,
                   progress, result_df, cell_combinations, args, site_keys, coords, is_analyzing>>

\* analyze_data from its first line to the first processEvents
analyze_data_entry ==
    /\ pc = "window"
    /\ frames # <<>> /\ Top.at = "entry"
    /\ LET outcome == entry_outcome(is_analyzing, args.data_available)
       IN IF outcome = "started"
          THEN /\ is_analyzing' = TRUE
               /\ frames' = MoveTo("started")
               /\ UNCHANGED results
          ELSE /\ frames' = Pop
               /\ results' = Append(results, outcome)
               /\ UNCHANGED is_analyzing
    /\ UNCHANGED <<ep_data, mr_data, param_settings, pc, futures, processed_cells,
                   progress, result_df, cell_combinations, args, site_keys, coords>>

\* an exception between the setting of the flag and the inner try: the outer
\* except clause
analyze_data_outer_except ==
    /\ pc = "window"
    /\ frames # <<>> /\ Top.at = "started"
    /\ is_analyzing' = FALSE
    /\ frames' = Pop
    /\ results' = Append(results, "aborted")
    /\ UNCHANGED <<ep_data, mr_data, param_settings, pc, futures, processed_cells,
                   progress, result_df, cell_combinations, args, site_keys, coords>>

\* into the inner try: clear_layouts and the start of the calculation
analyze_data_try ==
    /\ pc = "window"
    /\ frames # <<>> /\ Top.at = "started"
    /\ frames' = MoveTo("analysis")
    /\ UNCHANGED <<ep_data, mr_data, param_settings, pc, futures, results, processed_cells,
                   progress, result_df, cell_combinations, args, site_keys, coords, is_analyzing>>

\* the calculation returns its table
analyze_data_calculated ==
    /\ pc = "window"
    /\ frames # <<>> /\ Top.at = "analysis"
    /\ frames' = MoveTo("display")
    /\ UNCHANGED <<ep_data, mr_data, param_settings, pc, futures, results, processed_cells,
                   progress, result_df, cell_combinations, args, site_keys, coords, is_analyzing>>

\* an exception inside the inner try: the inner except clause
analyze_data_except ==
    /\ pc = "window"
    /\ frames # <<>> /\ Top.at \in {"analysis", "display"}
    /\ frames' = MoveTo("failed")
    /\ UNCHANGED <<ep_data, mr_data, param_settings, pc, futures, results, processed_cells,
                   progress, result_df, cell_combinations, args, site_keys, coords, is_analyzing>>

\* the finally clause and the return
analyze_data_finally ==
    /\ pc = "window"
    /\ frames # <<>> /\ Top.at \in {"display", "failed"}
    /\ is_analyzing' = FALSE
    /\ results' = Append(results, IF Top.at = "display" THEN "completed" ELSE "failed")
    /\ frames' = Pop
    /\ UNCHANGED <<ep_data, mr_data, param_settings, pc, futures, processed_cells,
                   progress, result_df, cell_combinations, args, site_keys, coords>>

InitWindow ==
    /\ \E window \in Windows, data_available \in BOOLEAN :
          args = [call |-> "analyze_data", window |-> window,
                  data_available |-> data_available]
    /\ is_analyzing = FALSE
    /\ frames = <<>>
    /\ site_keys = {}
    /\ pc = "window"
    /\ ep_data = <<>>
    /\ mr_data = {}
    /\ param_settings = [sector_split |-> <<>>, massive_mimo |-> <<>>]
    /\ futures = {}
    /\ results = <<>>
    /\ processed_cells = 0
    /\ progress = <<>>
    /\ result_df = <<>>
    /\ cell_combinations = <<>>
    /\ coords = <<>>

NextWindow ==
    \/ click
    \/ analyze_data_entry
    \/ analyze_data_outer_except
    \/ analyze_data_try
    \/ analyze_data_calculated
    \/ analyze_data_except
    \/ analyze_data_finally

SpecWindow == InitWindow /\ [][NextWindow]_vars

(* -------------------------------------------------------------------------
   TrialManager: the EP keys of the trial version.  site_keys is loaded from
   the trial file at construction; register_sites and validate_sites are
   called with the list of EP keys of the uploaded table.  results is the log
   of the calls: [call, ep_keys, returned].
   ------------------------------------------------------------------------- *)

\* bound: the number of calls in one run
MaxCalls == 3

Keys == {"1_1", "1_2"}

\* the key lists of the calls: up to two keys, repetitions included
KeyLists == {<<>>} \cup {<<k>> : k \in Keys} \cup {<<k, h>> : k \in Keys, h \in Keys}

\* variant of registered_keys that takes every list
registered_keys_overwritten(keys, ep_keys) == Range(ep_keys)

\* "if not self.site_keys: self.site_keys = set(ep_keys)"
registered_keys(keys, ep_keys) == IF keys = {} THEN Range(ep_keys) ELSE keys

\* the first element of the pair validate_sites returns
validate(keys, ep_keys) ==
    IF keys = {} THEN TRUE
    ELSE Range(ep_keys) \subseteq keys

\* register_sites returns save_trial_data() after a first registration (False
\* when the trial file cannot be written) and True otherwise
register_returns(keys, saved) == IF keys = {} THEN saved ELSE TRUE

register_sites(ep_keys) ==
    /\ pc = "trial"
    /\ Len(results) < MaxCalls
    /\ site_keys' = registered_keys(site_keys, ep_keys)
    /\ \E saved \in BOOLEAN :
          results' = Append(results, [call |-> "register_sites", ep_keys |-> ep_keys,
                                      returned |-> register_returns(site_keys, saved)])
    /\ UNCHANGED <<ep_data, mr_data, param_settings, pc, futures, processed_cells,
                   progress, result_df, cell_combinations, args, coords,
                   is_analyzing, frames>>

validate_sites(ep_keys) ==
    /\ pc = "trial"
    /\ Len(results) < MaxCalls
    /\ results' = Append(results, [call |-> "validate_sites", ep_keys |-> ep_keys,
                                    returned |-> validate(site_keys, ep_keys)])
    /\ UNCHANGED <<ep_data, mr_data, param_settings, pc, futures, processed_cells,
                   progress, result_df, cell_combinations, args, coords,
                   is_analyzing, frames, site_keys>>

\* the trial check of the upload window after the columns were matched:
\* validate_sites, and register_sites when the keys were accepted
match_columns(ep_keys) ==
    /\ pc = "trial"
    /\ Len(results) + 1 < MaxCalls
    /\ LET is_valid == validate(site_keys, ep_keys)
           checked == [call |-> "validate_sites", ep_keys |-> ep_keys,
                       returned |-> is_valid]
       IN IF is_valid
          THEN /\ site_keys' = registered_keys(site_keys, ep_keys)
               /\ \E saved \in BOOLEAN :
                     results' = results \o
                         <<checked, [call |-> "register_sites", ep_keys |-> ep_keys,
                                     returned |-> register_returns(site_keys, saved)]>>
          ELSE /\ results' = Append(results, checked)
               /\ UNCHANGED site_keys
    /\ UNCHANGED <<ep_data, mr_data, param_settings, pc, futures, processed_cells,
                   progress, result_df, cell_combinations, args, coords,
                   is_analyzing, frames>>

\* a new TrialManager: no trial file, or the file of an earlier run that
\* registered loaded (the log starts with that registration)
InitTrial ==
    /\ \E loaded \in {<<>>, <<"1_1">>, <<"1_2">>, <<"1_1", "1_2">>} :
          /\ site_keys = Range(loaded)
          /\ results = IF loaded = <<>> THEN <<>>
                       ELSE <<[call |-> "register_sites", ep_keys |-> loaded,
                               returned |-> TRUE]>>
    /\ args = [call |-> "TrialManager"]
    /\ pc = "trial"
    /\ ep_data = <<>>
    /\ mr_data = {}
    /\ param_settings = [sector_split |-> <<>>, massive_mimo |-> <<>>]
    /\ futures = {}
    /\ processed_cells = 0
    /\ progress = <<>>
    /\ result_df = <<>>
    /\ cell_combinations = <<>>
    /\ coords = <<>>
    /\ is_analyzing = FALSE
    /\ frames = <<>>

NextTrial ==
    \/ \E ep_keys \in KeyLists : register_sites(ep_keys)
    \/ \E ep_keys \in KeyLists : validate_sites(ep_keys)
    \/ \E ep_keys \in KeyLists : match_columns(ep_keys)

SpecTrial == InitTrial /\ [][NextTrial]_vars


----------------------------------------------------------------------------
(* Azimuth estimator: calculate_actual_azimuth_with_centroid of
   azimuth_utils.py.  The MR table is a sequence of blocks
   [site, cell, kind, axis, s, n, numeric] in table order; a block is n
   consecutive MR rows.  The samples of a sector lie around its mast along
   one line: axis is the bearing of the line's positive direction (0 or 90)
   and s the signed place on it in metres, so that the distance of a point
   from the mast is |s| and the bearing of a point is axis, or the opposite
   bearing for s < 0.  The points of a "dense" block all lie at s; those of
   a "scattered" block lie apart from one another and from every other
   block by more than eps, nearer than 1500 m to the mast, with mean s.
   Two places of dense blocks are the same or more than eps apart.
   args = [min_points, max_distance]; results holds the returned values of
   the calls, one call for the sector of each EP row in turn. *)

\* a returned value is <<azimuth>>, or None
None == <<>>

\* DBSCAN(eps=0.0015, min_samples=10)
dbscan_min_samples == 10

\* if len(coords) > 100
DensityThreshold == 100

\* max_distance=2000
DefaultMaxDistance == 2000

\* len() of a point array
NumPoints(blocks) == SumSeq(List([i \in 1..Len(blocks) |-> blocks[i].n]))

\* mr_data['Carrier_Lookup']: dict(zip(EP_key, Carrier)) keeps the carrier
\* of the last EP row of a key; NaN for a key without EP row
Carrier_Lookup(b) ==
    LET rows == {i \in 1..Len(ep_data) :
                    ep_data[i].site = b.site /\ ep_data[i].cell = b.cell}
    IN IF rows = {} THEN "NaN" ELSE ep_data[MaxOf(rows)].carrier

\* the indices of the EP rows of (site_id, cell_id, carrier)
ep_row(site_id, cell_id, carrier) ==
    {i \in 1..Len(ep_data) : /\ ep_data[i].site = site_id
                             /\ ep_data[i].cell = cell_id
                             /\ ep_data[i].carrier = carrier}

mr_points(site_id, cell_id, carrier) ==
    SelectSeq(mr_data, LAMBDA b : /\ b.site = site_id
                                  /\ b.cell = cell_id
                                  /\ Carrier_Lookup(b) = carrier)

\* dists < max_distance
in_range(b) == IF b.kind = "dense" THEN Abs(b.s) < args.max_distance ELSE TRUE

\* the number of points of c lying at the place s
PlaceCount(c, s) ==
    NumPoints(SelectSeq(c, LAMBDA b : b.kind = "dense" /\ b.s = s))

\* DBSCAN: the places whose points form a cluster (the points of a place
\* with fewer than min_samples points, and scattered points, are noise)
ClusterPlaces(c) ==
    {c[i].s : i \in {j \in 1..Len(c) : /\ c[j].kind = "dense"
                                        /\ PlaceCount(c, c[j].s) >= dbscan_min_samples}}

\* the row of the first point of the cluster at place s: labels are given
\* in this order
FirstRow(c, s) == CHOOSE i \in 1..Len(c) :
    /\ c[i].kind = "dense" /\ c[i].s = s
    /\ \A j \in 1..(i - 1) : ~(c[j].kind = "dense" /\ c[j].s = s)

\* pd.Series(labels[valid]).mode()[0]: the most frequent label, the
\* smallest one among equally frequent labels
main_label(c) ==
    CHOOSE s \in ClusterPlaces(c) : \A t \in ClusterPlaces(c) :
        \/ PlaceCount(c, t) < PlaceCount(c, s)
        \/ PlaceCount(c, t) = PlaceCount(c, s) /\ FirstRow(c, s) <= FirstRow(c, t)

\* variant: the dominant cluster replaces the points whatever its size
cluster_or_all_any_size(c) ==
    IF ClusterPlaces(c) # {}
    THEN SelectSeq(c, LAMBDA b : b.kind = "dense" /\ b.s = main_label(c))
    ELSE c

\* the clustering branch: coords after 'if np.any(valid)'
cluster_or_all(c) ==
    IF ClusterPlaces(c) # {}
    THEN LET cluster_coords ==
                 SelectSeq(c, LAMBDA b : b.kind = "dense" /\ b.s = main_label(c))
         IN IF NumPoints(cluster_coords) >= args.min_points
            THEN cluster_coords ELSE c
    ELSE c

\* Len(c) times the mean place of the points of c
centroid(c) == SumSeq(List([i \in 1..Len(c) |-> c[i].n * c[i].s]))

\* math.degrees(math.atan2(y, x)) for a centroid on the line: in -180..180
atan2_degrees(axis, along) ==
    IF along > 0 THEN axis
    ELSE IF along = 0 THEN 0
    ELSE IF axis = 0 THEN 180 ELSE axis - 180

calculate_azimuth(axis, along) == (atan2_degrees(axis, along) + 360) % 360

\* the sector of the running call
CallRow == ep_data[processed_cells + 1]

\* return value
Return(value) ==
    /\ results' = Append(results, value)
    /\ processed_cells' = processed_cells + 1
    /\ coords' = <<>>
    /\ pc' = "az_call"

\* up to the first test on min_points: the EP row, the MR points of the cell
az_select ==
    /\ pc = "az_call"
    /\ processed_cells < Len(ep_data)
    /\ LET rows == ep_row(CallRow.site, CallRow.cell, CallRow.carrier)
           pts == mr_points(CallRow.site, CallRow.cell, CallRow.carrier)
       IN IF rows = {} THEN Return(None)
          \* float(ep_row[...]) raises
          ELSE IF ~ep_data[CHOOSE i \in rows : \A j \in rows : i <= j].lat_numeric
          THEN Return(None)
          ELSE IF NumPoints(pts) < args.min_points THEN Return(None)
          \* .values.astype(float) raises
          ELSE IF \E i \in 1..Len(pts) : ~pts[i].numeric THEN Return(None)
          ELSE /\ coords' = pts
               /\ pc' = "az_filter"
               /\ UNCHANGED <<results, processed_cells>>
    /\ UNCHANGED <<ep_data, mr_data, param_settings, futures, progress,
                   result_df, cell_combinations, args, site_keys, is_analyzing, frames>>

\* the filter by distance from the site and the second test on min_points
az_filter ==
    /\ pc = "az_filter"
    /\ LET kept == SelectSeq(coords, in_range)
       IN IF NumPoints(kept) < args.min_points THEN Return(None)
          ELSE /\ coords' = kept
               /\ pc' = "az_cluster"
               /\ UNCHANGED <<results, processed_cells>>
    /\ UNCHANGED <<ep_data, mr_data, param_settings, futures, progress,
                   result_df, cell_combinations, args, site_keys, is_analyzing, frames>>

\* the optional clustering
az_cluster ==
    /\ pc = "az_cluster"
    /\ coords' = IF NumPoints(coords) > DensityThreshold
                 THEN cluster_or_all(coords) ELSE coords
    /\ pc' = "az_centroid"
    /\ UNCHANGED <<ep_data, mr_data, param_settings, futures, results,
                   processed_cells, progress, result_df, cell_combinations, args, site_keys, is_analyzing, frames>>

\* the centroid and the azimuth from the site to it
az_centroid ==
    /\ pc = "az_centroid"
    /\ Return(<<calculate_azimuth(coords[1].axis, centroid(coords))>>)
    /\ UNCHANGED <<ep_data, mr_data, param_settings, futures, progress,
                   result_df, cell_combinations, args, site_keys, is_analyzing, frames>>


\* places of the dense blocks: two within max_distance, one on either side
\* of the mast, one 1 m inside, one exactly at it, one beyond
AzPlaces == {0 - 1500, 500, 1999, 2000, 2500}

AzCounts == {1, 29, 30, 101}

MinPointsChoices == {30, 80}

Axes == {0, 90}

AzBlock(cell, kind, axis, s, n, numeric) ==
    [site |-> 1, cell |-> cell, kind |-> kind, axis |-> axis, s |-> s,
     n |-> n, numeric |-> numeric]

AzSector(cell, carrier, numeric) ==
    [site |-> 1, cell |-> cell, carrier |-> carrier,
     az |-> (350 * (cell - 1)) % 360, lat_numeric |-> numeric]

\* the blocks a table of family 1 is made of: dense blocks of cell 1 at every
\* place, scattered points of cell 1, a row of cell 1 with a non-numeric
\* latitude, and points of cell 2
AzBlockChoices(axis) ==
    {AzBlock(1, "dense", axis, s, n, TRUE) : s \in AzPlaces, n \in AzCounts}
    \cup {AzBlock(1, "scattered", axis, s, 101, TRUE) : s \in {0 - 1500, 500}}
    \cup {AzBlock(1, "dense", axis, 500, 1, FALSE),
          AzBlock(2, "dense", axis, 500, 30, TRUE)}

\* the EP tables of family 1: the sector alone, with a row of the same cell
\* on the other carrier, with a non-numeric latitude, with a second cell,
\* with its row twice
AzEpChoices ==
    {<<AzSector(1, L1, TRUE)>>,
     <<AzSector(1, L1, TRUE), AzSector(1, L2, TRUE)>>,
     <<AzSector(1, L1, FALSE)>>,
     <<AzSector(1, L1, TRUE), AzSector(2, L1, TRUE)>>,
     <<AzSector(1, L1, TRUE), AzSector(1, L1, TRUE)>>}

\* family 1 of the azimuth inputs: two blocks of any kind
InitAzBlocks ==
    \E axis \in Axes, ep \in AzEpChoices :
        \E b1, b2 \in AzBlockChoices(axis) :
            /\ ep_data = ep
            /\ mr_data = <<b1, b2>>

\* family 2 of the azimuth inputs: four sectors, each with a lobe on the
\* positive side of its line and clutter on the negative side
InitAzLobes ==
    \E axis \in Axes :
        \E lobe \in [1..4 -> {9, 29, 71}],
           clutter \in [1..4 -> {<<"dense", 29>>, <<"dense", 30>>, <<"scattered", 101>>}] :
            /\ ep_data = [i \in 1..4 |-> AzSector(i, L1, TRUE)]
            /\ mr_data = [j \in 1..8 |->
                   LET i == (j + 1) \div 2
                   IN IF j % 2 = 1
                      THEN AzBlock(i, "dense", axis, 500, lobe[i], TRUE)
                      ELSE AzBlock(i, clutter[i][1], axis, 0 - 1500, clutter[i][2], TRUE)]

InitAzimuth ==
    /\ InitAzBlocks \/ InitAzLobes
    /\ \E min_points \in MinPointsChoices :
           args = [min_points |-> min_points, max_distance |-> DefaultMaxDistance]
    /\ param_settings = [sector_split |-> <<>>, massive_mimo |-> <<>>]
    /\ pc = "az_call"
    /\ futures = {}
    /\ is_analyzing = FALSE
    /\ frames = <<>>
    /\ site_keys = {}
    /\ results = <<>>
    /\ processed_cells = 0
    /\ progress = <<>>
    /\ result_df = <<>>
    /\ cell_combinations = <<>>
    /\ coords = <<>>

NextAzimuth ==
    \/ az_select
    \/ az_filter
    \/ az_cluster
    \/ az_centroid

SpecAzimuth == InitAzimuth /\ [][NextAzimuth]_vars

----------------------------------------------------------------------------
(* The azimuth table: ActualAzimuthWindow.calculate_actual_azimuth_with_centroid
   of actual_azimuth_window.py and build_azimuth_result_table of
   sectorswap.py, which differ in the cell id they hand to the estimator.
   args = [min_points, max_distance, builder]. *)

LessNumberOfMR == [text |-> "Less Number of MR"]

\* a numeric cell of the table
Num(value) == [num |-> value]

\* the value calculate_actual_azimuth_with_centroid returns for one call
calculate_actual_azimuth_with_centroid(site_id, cell_id, carrier) ==
    LET rows == ep_row(site_id, cell_id, carrier)
        pts == mr_points(site_id, cell_id, carrier)
        kept == SelectSeq(pts, in_range)
        used == IF NumPoints(kept) > DensityThreshold
                THEN cluster_or_all(kept) ELSE kept
    IN IF rows = {} THEN None
       ELSE IF ~ep_data[CHOOSE i \in rows : \A j \in rows : i <= j].lat_numeric
       THEN None
       ELSE IF NumPoints(pts) < args.min_points THEN None
       ELSE IF \E i \in 1..Len(pts) : ~pts[i].numeric THEN None
       ELSE IF NumPoints(kept) < args.min_points THEN None
       ELSE <<calculate_azimuth(used[1].axis, centroid(used))>>

\* str(cell_id) of an id of an integer column: a text, equal to no id of
\* the EP and MR tables
str(cell_id) == 0 - cell_id

\* the cell id the builder hands to the estimator
estimator_cell_id(cell_id) ==
    IF args.builder = "calculator" THEN str(cell_id) ELSE cell_id

\* the dict appended for the EP row idx (the azimuths of the inputs are
\* whole degrees, which round(x, 2) leaves alone)
azimuth_result(idx) ==
    LET row == ep_data[idx]
        planned_azimuth == row.az
        actual_azimuth ==
            calculate_actual_azimuth_with_centroid(
                row.site, estimator_cell_id(row.cell), row.carrier)
        azimuth_diff == Abs(planned_azimuth - actual_azimuth[1])
    IN IF actual_azimuth = None
       THEN [site |-> row.site, cell |-> estimator_cell_id(row.cell),
             carrier |-> row.carrier, planned_azimuth |-> planned_azimuth,
             actual_azimuth |-> LessNumberOfMR,
             azimuth_difference |-> LessNumberOfMR,
             ep_location |-> idx, result |-> LessNumberOfMR.text]
       ELSE [site |-> row.site, cell |-> estimator_cell_id(row.cell),
             carrier |-> row.carrier, planned_azimuth |-> planned_azimuth,
             actual_azimuth |-> Num(actual_azimuth[1]),
             azimuth_difference |->
                 Num(IF azimuth_diff <= 360 - azimuth_diff
                     THEN azimuth_diff ELSE 360 - azimuth_diff),
             ep_location |-> idx, result |-> "OK"]

\* one round of the loop over the EP rows; float() of a non-numeric EP
\* latitude raises out of the builder
azimuth_table_row ==
    /\ pc = "az_table"
    /\ processed_cells < Len(ep_data)
    /\ IF ~ep_data[processed_cells + 1].lat_numeric
       THEN /\ pc' = "raised"
            /\ UNCHANGED <<results, processed_cells>>
       ELSE /\ results' = Append(results, azimuth_result(processed_cells + 1))
            /\ processed_cells' = processed_cells + 1
            /\ pc' = pc
    /\ UNCHANGED <<ep_data, mr_data, param_settings, futures, progress,
                   result_df, cell_combinations, args, site_keys, is_analyzing, frames, coords>>

\* pd.DataFrame(results)
azimuth_table_end ==
    /\ pc = "az_table"
    /\ processed_cells = Len(ep_data)
    /\ result_df' = results
    /\ pc' = "done"
    /\ UNCHANGED <<ep_data, mr_data, param_settings, futures, results,
                   processed_cells, progress, cell_combinations, args, site_keys, is_analyzing, frames, coords>>

InitAzimuthTable ==
    /\ InitAzBlocks \/ InitAzLobes
    /\ \E min_points \in MinPointsChoices, builder \in {"window", "calculator"} :
           args = [min_points |-> min_points, max_distance |-> DefaultMaxDistance,
                   builder |-> builder]
    /\ param_settings = [sector_split |-> <<>>, massive_mimo |-> <<>>]
    /\ pc = "az_table"
    /\ futures = {}
    /\ is_analyzing = FALSE
    /\ frames = <<>>
    /\ site_keys = {}
    /\ results = <<>>
    /\ processed_cells = 0
    /\ progress = <<>>
    /\ result_df = <<>>
    /\ cell_combinations = <<>>
    /\ coords = <<>>

NextAzimuthTable ==
    \/ azimuth_table_row
    \/ azimuth_table_end

SpecAzimuthTable == InitAzimuthTable /\ [][NextAzimuthTable]_vars


(* Vocabulary of the neighbor claims.  A sector is named by the index of
   its EP row, which is also its Cell ID. *)

NbrDone == pc = "done"

Sectors == 1..Len(ep_data)

\* the rows of the result whose serving sector is A, in table order
RowsOf(A) == SelectSeq(result_df, LAMBDA r : r.serving_cell = A)

\* the neighbor sectors of the rows of A, in table order
ListedOf(A) == [k \in 1..Len(RowsOf(A)) |-> RowsOf(A)[k].neighbor_cell]

\* both sectors have coordinates, so that there is a distance between them
HasDistance(A, B) == ep_data[A].lat_numeric /\ ep_data[B].lat_numeric

\* the distance between the masts of A and B, in mm
Distance(A, B) == Abs(ep_data[A].pos - ep_data[B].pos)

\* the candidates of A: the other sectors within the search radius
InRange(A) ==
    {B \in Sectors \ {A} : HasDistance(A, B) /\ Distance(A, B) <= args.search_radius}

Kept(A) == {ListedOf(A)[k] : k \in 1..Len(RowsOf(A))}

Dropped(A) == InRange(A) \ Kept(A)

\* C16: every serving sector has at most max_neighbors rows, its rows are in
\* ascending order of the distance to the neighbor, and no in-range candidate
\* that was dropped is strictly closer than a candidate that was kept
C16_NearestKept ==
    NbrDone =>
        \A A \in Sectors :
            /\ Len(RowsOf(A)) <= args.max_neighbors
            /\ \A k \in 1..Len(RowsOf(A)) - 1 :
                   Distance(A, ListedOf(A)[k]) <= Distance(A, ListedOf(A)[k + 1])
            /\ \A B \in Dropped(A), K \in Kept(A) : Distance(A, B) >= Distance(A, K)

\* the place of sector B in the rows of A (0 when B is not listed)
PlaceOf(A, B) ==
    IF B \in Kept(A)
    THEN CHOOSE k \in 1..Len(RowsOf(A)) : ListedOf(A)[k] = B
    ELSE 0

NeighborTypeOf(A, B) ==
    IF ep_data[A].carrier = ep_data[B].carrier
    THEN "Intra-Frequency" ELSE "Inter-Frequency"

\* C17: a serving sector A with no more than max_neighbors sectors in range
\* has exactly one row for every sector B # A with distance(A,B) <=
\* search_radius and no other row, and the type of the row is Intra-Frequency
\* when A and B have the same carrier, Inter-Frequency otherwise
C17_ExactlyTheSectorsInRange ==
    NbrDone =>
        \A A \in Sectors :
            Cardinality(InRange(A)) <= args.max_neighbors =>
                /\ Kept(A) = InRange(A)
                /\ Len(RowsOf(A)) = Cardinality(InRange(A))
                /\ \A k \in 1..Len(RowsOf(A)) :
                       RowsOf(A)[k].neighbor_type = NeighborTypeOf(A, ListedOf(A)[k])

\* a finished run in which a sector A with no more than max_neighbors
\* candidates has a co-located sector of the other carrier, a sector of its
\* own carrier exactly at the radius and a sector beyond the radius
C17_Witness ==
    /\ NbrDone
    /\ \E A \in Sectors :
          /\ Cardinality(InRange(A)) <= args.max_neighbors
          /\ \E B, C, D \in Sectors \ {A} :
                /\ Distance(A, B) = 0 /\ ep_data[B].site = ep_data[A].site
                /\ B \in Kept(A) /\ NeighborTypeOf(A, B) = "Inter-Frequency"
                /\ Distance(A, C) = args.search_radius
                /\ C \in Kept(A) /\ NeighborTypeOf(A, C) = "Intra-Frequency"
                /\ HasDistance(A, D) /\ Distance(A, D) > args.search_radius
                /\ D \notin Kept(A)

\* C18: of two candidates of one serving sector with equal distance the one
\* of the later EP row is listed only if the one of the earlier EP row is
\* listed, and after it
C18_TiesInInputOrder ==
    NbrDone =>
        \A A \in Sectors :
            \A B, C \in InRange(A) :
                (B < C /\ Distance(A, B) = Distance(A, C) /\ C \in Kept(A)) =>
                    (B \in Kept(A) /\ PlaceOf(A, B) < PlaceOf(A, C))

\* a finished run in which the cut falls inside a group of equidistant
\* candidates of one sector and a whole group is listed for another
C18_Witness ==
    /\ NbrDone
    /\ \E A \in Sectors : \E B, C \in InRange(A) :
          /\ B < C /\ Distance(A, B) = Distance(A, C)
          /\ B \in Kept(A) /\ C \notin Kept(A)
          /\ Len(RowsOf(A)) = args.max_neighbors
    /\ \E A \in Sectors : \E B, C \in InRange(A) :
          /\ B < C /\ Distance(A, B) = Distance(A, C)
          /\ B \in Kept(A) /\ C \in Kept(A)


(* Vocabulary of the azimuth claims.  Call k is the call for the sector of
   EP row k; a sample is attributed to the sector whose carrier the EP table
   gives for the sample's site and cell. *)

Calls == 1..Len(results)

\* the samples attributed to the sector of call k that have coordinates
Attributed(k) ==
    SelectSeq(mr_data, LAMBDA b :
        /\ b.site = ep_data[k].site /\ b.cell = ep_data[k].cell
        /\ Carrier_Lookup(b) = ep_data[k].carrier
        /\ b.numeric)

\* those of them that are closer than max_distance to the mast
Remaining(k) ==
    SelectSeq(Attributed(k), LAMBDA b :
        b.kind = "scattered" \/ Abs(b.s) < args.max_distance)

\* C19: for a sector with an EP location the estimator returns Insufficient
\* (None) when fewer than min_points attributed samples remain within
\* max_distance, and an azimuth in [0,360) when at least min_points remain
C19_InsufficientBelowMinPoints ==
    \A k \in Calls :
        ep_data[k].lat_numeric =>
            IF NumPoints(Remaining(k)) < args.min_points
            THEN results[k] = None
            ELSE results[k] # None /\ results[k][1] \in 0..359


\* the dominant non-noise cluster of the points c
Dominant(c) == SelectSeq(c, LAMBDA b : b.kind = "dense" /\ b.s = main_label(c))

\* the points the centroid of call k is to be taken of
CentroidPoints(k) ==
    LET all == Remaining(k)
    IN IF NumPoints(all) <= 100 THEN all
       ELSE IF ClusterPlaces(all) = {} THEN all
       ELSE IF NumPoints(Dominant(all)) >= args.min_points THEN Dominant(all)
       ELSE all

\* the bearing from the mast to the centroid of the points c
BearingOfCentroid(c) ==
    LET along == SumSeq(List([i \in 1..Len(c) |-> c[i].n * c[i].s]))
        axis == c[1].axis
    IN IF along > 0 THEN axis
       ELSE IF along = 0 THEN 0
       ELSE axis + 180

\* C20: the points of the centroid are the whole distance-filtered set when
\* it has 100 points or fewer, the dominant non-noise cluster when more than
\* 100 remain and the cluster has at least min_points points, and the whole
\* filtered set when more than 100 remain but all are noise or the dominant
\* cluster has fewer than min_points; the returned azimuth is the bearing of
\* the centroid of these points
C20_CentroidPointSet ==
    /\ pc = "az_centroid" => coords = CentroidPoints(processed_cells + 1)
    /\ \A k \in Calls :
           results[k] # None => results[k][1] = BearingOfCentroid(CentroidPoints(k))

\* four calls have returned an azimuth: one with 100 points of which 71 form
\* a cluster, one with a dominant cluster of min_points or more among more
\* than 100, one with more than 100 points that are all noise, one with more
\* than 100 whose dominant cluster is smaller than min_points; in each the
\* cluster lies opposite to the centroid of all points
C20_Witness ==
    /\ Len(results) = 4
    /\ \A k \in Calls : results[k] # None
    /\ \E k \in Calls :
          /\ NumPoints(Remaining(k)) = 100
          /\ ClusterPlaces(Remaining(k)) # {}
          /\ NumPoints(Dominant(Remaining(k))) >= args.min_points
          /\ results[k][1] # BearingOfCentroid(Dominant(Remaining(k)))
    /\ \E k \in Calls :
          /\ NumPoints(Remaining(k)) > 100
          /\ CentroidPoints(k) # Remaining(k)
          /\ results[k][1] # BearingOfCentroid(Remaining(k))
    /\ \E k \in Calls :
          /\ NumPoints(Remaining(k)) > 100
          /\ ClusterPlaces(Remaining(k)) = {}
    /\ \E k \in Calls :
          /\ NumPoints(Remaining(k)) > 100
          /\ ClusterPlaces(Remaining(k)) # {}
          /\ NumPoints(Dominant(Remaining(k))) < args.min_points
          /\ results[k][1] # BearingOfCentroid(Dominant(Remaining(k)))


(* Vocabulary of the claim about the azimuth table *)

AzTableOver == pc \in {"done", "raised"} /\ "builder" \in DOMAIN args

\* the rows of the table for the sector of EP row k
AzRowsOf(k) ==
    SelectSeq(result_df, LAMBDA r : /\ r.site = ep_data[k].site
                                    /\ r.cell = ep_data[k].cell
                                    /\ r.carrier = ep_data[k].carrier)

\* the estimate of the sector of EP row k
EstimateOf(k) ==
    calculate_actual_azimuth_with_centroid(
        ep_data[k].site, ep_data[k].cell, ep_data[k].carrier)

\* C21: the azimuth analysis does not raise and its table has exactly one
\* row per EP sector (site, cell, carrier): the row of a sector whose
\* estimate is Insufficient holds 'Less Number of MR' in Actual Azimuth,
\* Azimuth Difference and Result and the sector's EP coordinates, the row of
\* every other sector holds Result 'OK' and an Azimuth Difference in [0,180]
C21_OneAzimuthRowPerSector ==
    AzTableOver =>
        /\ pc = "done"
        /\ Len(result_df) = Cardinality(EpSectors)
        /\ \A k \in 1..Len(ep_data) :
              /\ Len(AzRowsOf(k)) = 1
              /\ LET r == AzRowsOf(k)[1]
                 IN IF EstimateOf(k) = None
                    THEN /\ r.actual_azimuth = LessNumberOfMR
                         /\ r.azimuth_difference = LessNumberOfMR
                         /\ r.result = "Less Number of MR"
                         /\ ep_data[r.ep_location].site = ep_data[k].site
                         /\ ep_data[r.ep_location].cell = ep_data[k].cell
                    ELSE /\ r.result = "OK"
                         /\ "num" \in DOMAIN r.azimuth_difference
                         /\ r.azimuth_difference.num \in 0..180


(* Vocabulary of the claim about repeated runs *)

RECURSIVE RowsInSubmitOrder(_)
\* the rows of the site workers, in the order of the sites in the list
RowsInSubmitOrder(sites) ==
    IF sites = <<>> THEN <<>>
    ELSE process_enodeb(Head(sites), ep_enodeb_data(Head(sites)),
                        mr_enodeb_data(Head(sites)))
         \o RowsInSubmitOrder(Tail(sites))

\* C22: the table sector_swap_analysis returns is the same for every order
\* in which the site workers complete: it is the table of the run in which
\* they complete in the order of their submission
C22_SameTableForEveryCompletionOrder ==
    Done => result_df = FinalTable(RowsInSubmitOrder(EnodebList))

(* -------------------------------------------------------------------------
   Vocabulary of the progress claim.
   ------------------------------------------------------------------------- *)

\* the rows analyze_coverage appends for the combinations combos, computed
\* without any reference to the callback
RECURSIVE CoverageRows(_)
CoverageRows(combos) ==
    IF combos = <<>> THEN <<>>
    ELSE LET row == Head(combos)
             ep_cell_data == SelectSeq(ep_data,
                                 LAMBDA r : r.site = row[1] /\ r.cell = row[2])
         IN (IF ep_cell_data # <<>> /\ ~ep_cell_data[1].lat_numeric THEN <<>>
             ELSE IF ep_cell_data # <<>>
             THEN <<process_cell(row[1], row[2], row[3], mr_data)>>
             ELSE <<base_result(row[1], row[2], row[3], NoEPData)>>)
            \o CoverageRows(Tail(combos))

\* the rows find_neighbors collects for the first k serving cells
RECURSIVE NeighborRows(_)
NeighborRows(k) == IF k = 0 THEN <<>> ELSE NeighborRows(k - 1) \o cell_neighbors(k)

\* the table of the running analysis as a function of its inputs alone
TableOfInputs ==
    IF args.call = "sector_swap_analysis"
    THEN FinalTable(RowsInSubmitOrder(EnodebList))
    ELSE IF args.call = "analyze_coverage"
    THEN LET rows == CoverageRows(EpCombinations)
         IN sort_values(rows, [i \in 1..Len(rows) |->
                                  rows[i].site * (NumIds + 1) + rows[i].cell])
    ELSE NeighborRows(Len(ep_data))

\* C23: during one run of sector_swap_analysis, analyze_coverage or
\* find_neighbors the percentages handed to progress_callback never decrease
\* and lie in 0..100, whatever the completion order of the site workers;
\* without a callback nothing is reported, and with or without one the
\* returned table is the same function of the inputs.
C23_ProgressNeverDecreases ==
    /\ \A i \in 1..Len(progress) :
          /\ progress[i] \in 0..100
          /\ i > 1 => progress[i - 1] <= progress[i]
    /\ ~args.progress_callback => progress = <<>>
    /\ pc = "done" => result_df = TableOfInputs

\* two sites whose workers completed against the submit order, with a callback
C23_Witness ==
    /\ pc = "done"
    /\ args.call = "sector_swap_analysis"
    /\ args.progress_callback
    /\ Len(progress) = 2
    /\ 0 < progress[1] /\ progress[1] < progress[2] /\ progress[2] = 100
    /\ results[1].enodeb > results[Len(results)].enodeb
    /\ result_df = TableOfInputs

(* -------------------------------------------------------------------------
   Vocabulary of the angular-difference claim.
   ------------------------------------------------------------------------- *)

\* min(|a - b|, 360 - |a - b|)
SmallerArc(a, b) ==
    LET d == IF a >= b THEN a - b ELSE b - a
    IN IF d <= 360 - d THEN d ELSE 360 - d

\* the turn d in 0..180 that takes one azimuth to the other, either way round
TurnBetween(a, b) == CHOOSE d \in 0..180 : (a - b - d) % 360 = 0 \/ (a - b + d) % 360 = 0

\* C24: for all azimuths a, b in [0, 360) the angular difference of the
\* neighbor and azimuth results equals min(|a-b|, 360-|a-b|), lies in
\* [0, 180], is symmetric, is 0 for a = b and 10 for (0, 350); the cone test
\* of the swap detector gives the same value for the same pair.
C24_AngularDifference ==
    Len(results) >= 2 =>
        /\ results[1] = SmallerArc(args.az1, args.az2)
        /\ results[1] = TurnBetween(args.az1, args.az2)
        /\ results[1] \in 0..180
        /\ results[1] = results[2]
        /\ args.az1 = args.az2 => results[1] = 0
        /\ (args.az1 = 0 /\ args.az2 = 350) => results[1] = 10
        /\ Len(results) = 3 => results[3] = results[1]

\* the pair (0, 350) after both functions ran
C24_Witness ==
    /\ pc = "done"
    /\ "az1" \in DOMAIN args
    /\ args.az1 = 0 /\ args.az2 = 350
    /\ results = <<10, 10, 10>>

(* -------------------------------------------------------------------------
   Vocabulary of the pair-consistency claim.
   ------------------------------------------------------------------------- *)

\* the rows of the final table that report a swap
SwapRows == {r \in TableRows : r.result.text = SwapFound}

\* the row r names the cell in its verdict, as reporter or as partner
Names(r, enodeb, cell_id) ==
    r.enodeb = enodeb /\ cell_id \in {r.cell, r.result.a, r.result.b}

MutualPairs ==
    {v \in Range(results) : v.mutual /\ v.totals[1] > 0 /\ v.totals[2] > 0}

\* C26: for a mutual pair with non-zero totals the strict condition implies
\* the adaptive condition, so for plain cells the verdict 'mutual and (strict
\* or adaptive)' is the same as 'mutual and adaptive', for every histogram.
C26_StrictImpliesAdaptive ==
    (pc = "done" /\ "call" \in DOMAIN args /\ args.call = "tables" /\ Len(results) = 1
        /\ "strict_swap" \in DOMAIN results[1]) =>
        \A v \in MutualPairs :
            /\ v.strict_swap => v.adaptive_swap
            /\ v.verdict = v.adaptive_swap

\* a mutual pair at the edge of the strict condition: 70 of 100 samples on
\* the target and 30 on the third cell, both ways
C26_Witness ==
    /\ pc = "done"
    /\ Len(results) = 1
    /\ "strict_swap" \in DOMAIN results[1]
    /\ results[1].mutual /\ results[1].strict_swap /\ results[1].adaptive_swap
    /\ results[1].totals = <<100, 100>>
    /\ SumBlocks({b \in mr_data : b.cell = 1 /\ b.brg = AzOf(2)}) = 70
    /\ SumBlocks({b \in mr_data : b.cell = 2 /\ b.brg = AzOf(1)}) = 70

(* -------------------------------------------------------------------------
   Vocabulary of the order-independence claim.
   ------------------------------------------------------------------------- *)

\* the EP rows of a site in ascending order of (carrier, cell id)
RowsAscending(enodeb) ==
    LET epE == ep_enodeb_data(enodeb)
    IN sort_values(epE, [i \in 1..Len(epE) |->
                            (IF epE[i].carrier = L1 THEN 0 ELSE NumIds + 1) + epE[i].cell])

\* C27: the resolved Cell Type of every cell of a site depends only on the set
\* of EP rows and the group configuration: the rows in their given order, in
\* ascending order and in descending order resolve to the same types, also
\* when a split partner is itself a member of a valid massive-MIMO group.
C27_TypesIndependentOfEpOrder ==
    Done =>
        \A enodeb \in EpSites :
            /\ final_type(ep_enodeb_data(enodeb)) = final_type(RowsAscending(enodeb))
            /\ final_type(ep_enodeb_data(enodeb)) = final_type(Reverse(RowsAscending(enodeb)))
            /\ \A r \in TableRows :
                  r.enodeb = enodeb =>
                      \E k \in DOMAIN final_type(RowsAscending(enodeb)) :
                          k[1] = r.cell /\ final_type(RowsAscending(enodeb))[k] = r.cell_type

(* -------------------------------------------------------------------------
   Vocabulary of the tie-break claim.
   ------------------------------------------------------------------------- *)

\* the place of the EP row of a cell in the EP table
EpIndex(enodeb, cell_id) ==
    CHOOSE i \in 1..Len(ep_data) :
        /\ ep_data[i].site = enodeb /\ ep_data[i].cell = cell_id
        /\ \A h \in 1..(i - 1) : ~(ep_data[h].site = enodeb /\ ep_data[h].cell = cell_id)

\* the cells of the candidate's site and carrier that share its highest count
TiedCells(e) ==
    {D \in CellsOn(e.enodeb, e.carrier) :
        \A X \in CellsOn(e.enodeb, e.carrier) :
            e.c.direction_counts[X] <= e.c.direction_counts[D]}

\* C28: when several cells tie for the highest direction count of an active
\* cell C, target(C) is the tied cell that comes first in the EP row order of
\* that site and carrier, and second_max_count equals max_count.
C28_TieGoesToFirstEpRow ==
    Done =>
        \A e \in AllCands :
            /\ e.c.target \in TiedCells(e)
            /\ \A D \in TiedCells(e) :
                  EpIndex(e.enodeb, e.c.target) <= EpIndex(e.enodeb, D)
            /\ Cardinality(TiedCells(e)) >= 2 => e.c.second_max_count = e.c.max_count

\* a finished analysis with an active cell whose highest count is shared by
\* two cells, the one with the higher cell id first in the EP table
C28_Witness ==
    /\ Done
    /\ \E e \in AllCands :
          /\ Cardinality(TiedCells(e)) = 2
          /\ e.c.max_count > 0
          /\ \A D \in TiedCells(e) : D <= e.c.target
          /\ e.c.second_max_count = e.c.max_count

(* -------------------------------------------------------------------------
   Vocabulary of the single-analysis claim.
   ------------------------------------------------------------------------- *)

\* the active calls that passed the test of the flag and run an analysis
RunningFrames == {i \in 1..Len(frames) : frames[i].at # "entry"}

\* C29: in the analysis windows at most one analysis runs at a time: an
\* analyze_data call that arrives while is_analyzing is true starts no second
\* analysis and leaves the flag set, and once no analyze_data call is active
\* is_analyzing is false on every path (success, missing data, exception).
C29_OneAnalysisAtATime ==
    /\ Cardinality(RunningFrames) <= 1
    /\ is_analyzing <=> RunningFrames # {}
    /\ frames = <<>> => ~is_analyzing

\* a call was rejected inside an analysis that failed, and all calls returned
C29_Witness ==
    /\ pc = "window"
    /\ frames = <<>>
    /\ ~is_analyzing
    /\ results = <<"rejected", "failed", "completed">>

(* -------------------------------------------------------------------------
   Vocabulary of the trial-registration claim.
   ------------------------------------------------------------------------- *)

\* the calls of the log before call i that registered a non-empty list
Registrations(i) ==
    {j \in 1..(i - 1) : results[j].call = "register_sites" /\ results[j].ep_keys # <<>>}

\* the keys of the first non-empty list registered before call i
FirstRegistered(i) ==
    IF Registrations(i) = {} THEN {}
    ELSE Range(results[CHOOSE j \in Registrations(i) :
                          \A h \in Registrations(i) : j <= h].ep_keys)

\* C30: after any sequence of register_sites and validate_sites calls the
\* registered key set equals the first non-empty key list ever registered,
\* and validate_sites(K) returns True exactly when nothing is registered yet
\* or K is a subset of the registered set.
C30_FirstRegistrationStays ==
    pc = "trial" =>
        /\ site_keys = FirstRegistered(Len(results) + 1)
        /\ \A i \in 1..Len(results) :
              results[i].call = "validate_sites" =>
                  (results[i].returned <=>
                      (FirstRegistered(i) = {}
                          \/ Range(results[i].ep_keys) \subseteq FirstRegistered(i)))

\* an empty list, then one key, then both keys were registered; the one key stays
C30_Witness ==
    /\ pc = "trial"
    /\ Len(results) = 3
    /\ \A i \in 1..3 : results[i].call = "register_sites"
    /\ results[1].ep_keys = <<>>
    /\ Len(results[2].ep_keys) = 1
    /\ Len(results[3].ep_keys) = 2 /\ Cardinality(Range(results[3].ep_keys)) = 2
    /\ site_keys = Range(results[2].ep_keys)

====
